---- MODULE Spec2Model ----
(***************************************************************************)
(* Model of the repository auditor: the crawler of IntelligentProject-     *)
(* Analyzer (fetchRepositoryStructure / crawlRepository and its skip       *)
(* rules), the weighted scoring of analyzeRepo, its hackathon eligibility  *)
(* check, its Together AI calls, and the interactive loop of menu.js.      *)
(* Each part has its own specification over the shared variables.          *)
(*                                                                         *)
(* A path is the sequence of its segment names; Chars gives the characters *)
(* of every name the remote repository uses, and the string predicates of  *)
(* the code (includes, endsWith, split/pop, toLowerCase) are computed on   *)
(* the characters of the slash-joined path.                                *)
(***************************************************************************)
EXTENDS Integers, Sequences, FiniteSets, TLC

VARIABLES
    status,          \* fetchRepositoryStructure: "idle", "crawling", "returned", "thrown"
    stack,           \* call stack of crawlRepository, innermost frame last
    allFiles,        \* structure.allFiles
    allDirectories,  \* structure.allDirectories
    fileContents,    \* structure.fileContents (path -> content)
    files,           \* structure.files (path -> content, important files)
    directories,     \* structure.directories (path -> [])
    analysis,        \* structure.analysis.complexity once analysed, "none" before
    probeSize,       \* size the hosting API reports for the root file big.js
    listRequests,    \* paths for which fetchDirectoryContents was called
    listFailed,      \* paths whose listing request failed
    contentRequests, \* paths for which fetchFileContent was called
    contentFailed,   \* paths whose content request failed
    visited,         \* item paths the for-loop of crawlRepository has looked at
    recordLog,       \* every path pushed to allFiles/allDirectories, in push order
    pc,              \* analyzeRepo scoring: criterion being evaluated, "final", "done"
    criteriaResults, \* criteriaResults (criterion -> sub-score)
    score,           \* the running weighted sum `score`, in hundredths
    finalScore,      \* finalScore, in tenths (toFixed(1)); -1 before it is computed
    remote,          \* the repository as the GitHub API describes it, NoData before it is asked
    contributorsRequest, \* fetchRepoData: "none", or how the contributors request ended ("ok", "failed")
    repoData,        \* analyzeRepo: the record fetchRepoData returned, NoData before
    hackathonCriteria,   \* analyzeRepo: its hackathonCriteria argument
    eligibilityResults,  \* eligibilityResults (rule -> outcome)
    eligible,        \* eligible
    llm,             \* the Together AI call in flight: "none", "pending", or how it settled
    llmFeasibility,  \* analyzeRepo: llmFeasibility, "null" until a judgment arrives
    result,          \* what analyzeRepo returned last: NoResult before, kind "null" on failure
    aiPc,            \* evaluateCodeQualityWithAI: "idle", "sampling", "calling", "returned"
    aiCall,          \* how the evaluator's Together AI call settled, "none" before
    aiResult,        \* what evaluateCodeQualityWithAI returned
    menuPc,          \* main of menu.js: where the interactive loop stands
    answers,         \* main: the answers of showMainMenu
    exitCause,       \* why the interactive loop ended, "none" while it runs
    analyses,        \* number of analyses the loop has started
    savedFile,       \* the report saveResultsToFile wrote last, NoFile before
    comprehensiveAnalysis, \* the raw totals the repository's comprehensive analysis gives each criterion
    calls,           \* callTogetherAIWithTimeout: per call site, the completion, the timer and the race
    runs,            \* analyzeRepository: per analyzer run, its position and what it has computed
    purposeScan,     \* analyzeAllFilesForPurpose: its position and the purpose found so far
    calc             \* one call of a calculate...Score function: raw total and returned score

crawlVars == <<status, stack, allFiles, allDirectories, fileContents, files,
               directories, analysis, probeSize, listRequests, listFailed,
               contentRequests, contentFailed, visited, recordLog>>
scoreVars == <<pc, criteriaResults, score, finalScore>>
eligVars == <<remote, contributorsRequest, repoData, hackathonCriteria, eligibilityResults, eligible>>
llmVars == <<llm, llmFeasibility, result, aiPc, aiCall, aiResult>>
menuVars == <<menuPc, answers, exitCause, analyses, savedFile>>
calcVars == <<calc, comprehensiveAnalysis>>
raceVars == <<calls>>
classVars == <<runs, purposeScan>>
vars == <<crawlVars, scoreVars, eligVars, llmVars, menuVars, calcVars, raceVars, classVars>>

\* what the crawl leaves alone, and what the scoring steps leave alone
nonCrawlVars == <<scoreVars, eligVars, llmVars, menuVars, calcVars, raceVars, classVars>>
nonScoreVars == <<crawlVars, eligVars, llmVars, menuVars, calcVars, raceVars, classVars>>

(***************************************************************************)
(* Strings                                                                 *)
(***************************************************************************)
\* the characters of every name the hosting API reports
Chars ==
       ("src" :> <<"s", "r", "c">>)
    @@ ("project" :> <<"p", "r", "o", "j", "e", "c", "t">>)
    @@ ("node_modules" :> <<"n", "o", "d", "e", "_", "m", "o", "d", "u", "l", "e", "s">>)
    @@ ("layout" :> <<"l", "a", "y", "o", "u", "t">>)
    @@ ("assets.png" :> <<"a", "s", "s", "e", "t", "s", ".", "p", "n", "g">>)
    @@ ("package.json" :> <<"p", "a", "c", "k", "a", "g", "e", ".", "j", "s", "o", "n">>)
    @@ ("README.md" :> <<"R", "E", "A", "D", "M", "E", ".", "m", "d">>)
    @@ ("big.js" :> <<"b", "i", "g", ".", "j", "s">>)
    @@ ("LICENSE" :> <<"L", "I", "C", "E", "N", "S", "E">>)
    @@ ("yarn.lock" :> <<"y", "a", "r", "n", ".", "l", "o", "c", "k">>)
    @@ ("build.js" :> <<"b", "u", "i", "l", "d", ".", "j", "s">>)
    @@ ("index.js" :> <<"i", "n", "d", "e", "x", ".", "j", "s">>)
    @@ ("edge.ts" :> <<"e", "d", "g", "e", ".", "t", "s">>)
    @@ ("logo.png" :> <<"l", "o", "g", "o", ".", "p", "n", "g">>)
    @@ ("components" :> <<"c", "o", "m", "p", "o", "n", "e", "n", "t", "s">>)
    @@ ("Button.jsx" :> <<"B", "u", "t", "t", "o", "n", ".", "j", "s", "x">>)
    @@ ("main.js" :> <<"m", "a", "i", "n", ".", "j", "s">>)
    @@ ("pkg" :> <<"p", "k", "g">>)
    @@ ("lib.js" :> <<"l", "i", "b", ".", "j", "s">>)
    @@ ("page.js" :> <<"p", "a", "g", "e", ".", "j", "s">>)
    @@ ("readme.txt" :> <<"r", "e", "a", "d", "m", "e", ".", "t", "x", "t">>)
    @@ ("link" :> <<"l", "i", "n", "k">>)
    @@ ("Demo.mp4" :> <<"D", "e", "m", "o", ".", "m", "p", "4">>)
    @@ ("app" :> <<"a", "p", "p">>)
    @@ ("pages" :> <<"p", "a", "g", "e", "s">>)
    @@ ("controllers" :> <<"c", "o", "n", "t", "r", "o", "l", "l", "e", "r", "s">>)
    @@ ("models" :> <<"m", "o", "d", "e", "l", "s">>)
    @@ ("services" :> <<"s", "e", "r", "v", "i", "c", "e", "s">>)
    @@ ("React.jsx" :> <<"R", "e", "a", "c", "t", ".", "j", "s", "x">>)
    @@ ("Dockerfile" :> <<"D", "o", "c", "k", "e", "r", "f", "i", "l", "e">>)
    @@ ("express-routes.js" :> <<"e", "x", "p", "r", "e", "s", "s", "-", "r", "o", "u", "t", "e", "s", ".", "j", "s">>)
    @@ ("user_auth.test.js" :> <<"u", "s", "e", "r", "_", "a", "u", "t", "h", ".", "t", "e", "s", "t", ".", "j", "s">>)
    @@ ("todo-api" :> <<"t", "o", "d", "o", "-", "a", "p", "i">>)
    @@ ("budget-tracker" :> <<"b", "u", "d", "g", "e", "t", "-", "t", "r", "a", "c", "k", "e", "r">>)
    @@ ("shop-admin" :> <<"s", "h", "o", "p", "-", "a", "d", "m", "i", "n">>)

toLowerCaseChar(c) ==
    CASE c = "A" -> "a"
      [] c = "B" -> "b"
      [] c = "C" -> "c"
      [] c = "D" -> "d"
      [] c = "E" -> "e"
      [] c = "F" -> "f"
      [] c = "G" -> "g"
      [] c = "H" -> "h"
      [] c = "I" -> "i"
      [] c = "J" -> "j"
      [] c = "K" -> "k"
      [] c = "L" -> "l"
      [] c = "M" -> "m"
      [] c = "N" -> "n"
      [] c = "O" -> "o"
      [] c = "P" -> "p"
      [] c = "Q" -> "q"
      [] c = "R" -> "r"
      [] c = "S" -> "s"
      [] c = "T" -> "t"
      [] c = "U" -> "u"
      [] c = "V" -> "v"
      [] c = "W" -> "w"
      [] c = "X" -> "x"
      [] c = "Y" -> "y"
      [] c = "Z" -> "z"
      [] OTHER -> c

\* the characters of a path: its segment names joined by "/"
RECURSIVE PathChars(_)
PathChars(path) ==
    IF path = <<>> THEN <<>>
    ELSE IF Len(path) = 1 THEN Chars[path[1]]
    ELSE PathChars(SubSeq(path, 1, Len(path) - 1)) \o <<"/">> \o Chars[path[Len(path)]]

\* String.prototype.includes
Includes(s, pattern) ==
    \E i \in 0..(Len(s) - Len(pattern)) : SubSeq(s, i + 1, i + Len(pattern)) = pattern

\* String.prototype.endsWith
EndsWith(s, suffix) ==
    /\ Len(suffix) <= Len(s)
    /\ SubSeq(s, Len(s) - Len(suffix) + 1, Len(s)) = suffix

\* s.split(sep).pop(): what follows the last occurrence of the character sep
SplitPop(s, sep) ==
    LET hits == {i \in 1..Len(s) : s[i] = sep}
        last == IF hits = {} THEN 0 ELSE CHOOSE i \in hits : \A j \in hits : j <= i
    IN  SubSeq(s, last + 1, Len(s))

\* String.prototype.toLowerCase
toLowerCase(s) == [i \in 1..Len(s) |-> toLowerCaseChar(s[i])]

SeqToSet(s) == {s[i] : i \in 1..Len(s)}

(***************************************************************************)
(* Skip rules and the important-file heuristic                             *)
(***************************************************************************)
skipPatterns ==
    << <<"n", "o", "d", "e", "_", "m", "o", "d", "u", "l", "e", "s">>,
       <<".", "g", "i", "t">>,
       <<"b", "u", "i", "l", "d">>,
       <<"d", "i", "s", "t">>,
       <<"o", "u", "t">>,
       <<".", "n", "e", "x", "t">>,
       <<"c", "o", "v", "e", "r", "a", "g", "e">>,
       <<".", "n", "y", "c", "_", "o", "u", "t", "p", "u", "t">>,
       <<".", "c", "a", "c", "h", "e">>,
       <<"t", "m", "p">>,
       <<"t", "e", "m", "p">>,
       <<"v", "e", "n", "d", "o", "r">>,
       <<"b", "o", "w", "e", "r", "_", "c", "o", "m", "p", "o", "n", "e", "n", "t", "s">>,
       <<".", "p", "n", "p">> >>

skipExtensions ==
    << <<".", "m", "i", "n", ".", "j", "s">>,
       <<".", "m", "i", "n", ".", "c", "s", "s">>,
       <<".", "m", "a", "p">>,
       <<".", "l", "o", "c", "k">>,
       <<".", "l", "o", "g">>,
       <<".", "p", "n", "g">>,
       <<".", "j", "p", "g">>,
       <<".", "j", "p", "e", "g">>,
       <<".", "g", "i", "f">>,
       <<".", "s", "v", "g">>,
       <<".", "i", "c", "o">>,
       <<".", "w", "o", "f", "f">>,
       <<".", "w", "o", "f", "f", "2">>,
       <<".", "t", "t", "f">>,
       <<".", "e", "o", "t">>,
       <<".", "z", "i", "p">>,
       <<".", "t", "a", "r">>,
       <<".", "g", "z">>,
       <<".", "r", "a", "r">>,
       <<".", "e", "x", "e">>,
       <<".", "d", "l", "l">>,
       <<".", "s", "o">>,
       <<".", "d", "y", "l", "i", "b">> >>

importantExtensions ==
    << <<".", "j", "s">>,
       <<".", "j", "s", "x">>,
       <<".", "t", "s">>,
       <<".", "t", "s", "x">>,
       <<".", "j", "s", "o", "n">>,
       <<".", "m", "d">>,
       <<".", "t", "x", "t">>,
       <<".", "y", "m", "l">>,
       <<".", "y", "a", "m", "l">>,
       <<".", "e", "n", "v">> >>

importantFiles ==
    << <<"p", "a", "c", "k", "a", "g", "e", ".", "j", "s", "o", "n">>,
       <<"R", "E", "A", "D", "M", "E", ".", "m", "d">>,
       <<"D", "o", "c", "k", "e", "r", "f", "i", "l", "e">>,
       <<"d", "o", "c", "k", "e", "r", "-", "c", "o", "m", "p", "o", "s", "e", ".", "y", "m", "l">>,
       <<".", "g", "i", "t", "i", "g", "n", "o", "r", "e">> >>

\* a slip that compares the whole path with each pattern instead of searching it
shouldSkipDirectory_exact(dirPath) ==
    \E i \in 1..Len(skipPatterns) : PathChars(dirPath) = skipPatterns[i]

shouldSkipDirectory(dirPath) ==
    \E i \in 1..Len(skipPatterns) : Includes(PathChars(dirPath), skipPatterns[i])

\* a slip that takes the large-file limit to be 10 MB
shouldSkipFile_10MB(filePath, fileSize) ==
    \/ fileSize > 10 * 1024 * 1024
    \/ \E i \in 1..Len(skipExtensions) : EndsWith(PathChars(filePath), skipExtensions[i])

shouldSkipFile(filePath, fileSize) ==
    \/ fileSize > 1024 * 1024
    \/ \E i \in 1..Len(skipExtensions) : EndsWith(PathChars(filePath), skipExtensions[i])

isImportantFile(filePath) ==
    LET extension == toLowerCase(SplitPop(PathChars(filePath), "."))
        fileName  == SplitPop(PathChars(filePath), "/")
    IN  \/ (<<".">> \o extension) \in SeqToSet(importantExtensions)
        \/ fileName \in SeqToSet(importantFiles)

(***************************************************************************)
(* The remote repository served by the hosting API                         *)
(***************************************************************************)

Item(name, type, size) == [name |-> name, type |-> type, size |-> size]

\* the tree the contents API serves: directory path -> its listing, in API order
RepoTree ==
       (<<>> :> << Item("src", "dir", 0),
                   Item("project", "dir", 0),
                   Item("node_modules", "dir", 0),
                   Item("layout", "dir", 0),
                   Item("assets.png", "dir", 0),
                   Item("link", "symlink", 12),
                   Item("package.json", "file", 840),
                   Item("README.md", "file", 5120),
                   Item("big.js", "file", 2000000),
                   Item("LICENSE", "file", 1071),
                   Item("yarn.lock", "file", 90000),
                   Item("build.js", "file", 300) >>)
    @@ (<<"src">> :> << Item("index.js", "file", 1048576),
                        Item("edge.ts", "file", 1048577),
                        Item("logo.png", "file", 2048),
                        Item("components", "dir", 0) >>)
    @@ (<<"src", "components">> :> << Item("Button.jsx", "file", 700) >>)
    @@ (<<"project">> :> << Item("node_modules", "dir", 0),
                            Item("main.js", "file", 1500) >>)
    @@ (<<"project", "node_modules">> :> << Item("pkg", "dir", 0) >>)
    @@ (<<"project", "node_modules", "pkg">> :> << Item("index.js", "file", 64) >>)
    @@ (<<"node_modules">> :> << Item("lib.js", "file", 64) >>)
    @@ (<<"layout">> :> << Item("page.js", "file", 64) >>)
    @@ (<<"assets.png">> :> << Item("readme.txt", "file", 64) >>)

\* sizes the API may report for big.js, around the 1 MiB limit
ProbeSizes == {512, 1024 * 1024, 1024 * 1024 + 1, 2000000}

\* response.data of a successful listing: each item carries its full path
fetchDirectoryContents(path) ==
    [i \in 1..Len(RepoTree[path]) |->
        LET it == RepoTree[path][i]
        IN  [path |-> Append(path, it.name),
             name |-> it.name,
             type |-> it.type,
             size |-> IF Append(path, it.name) = <<"big.js">> THEN probeSize ELSE it.size]]

\* the decoded text of a file; only its identity matters to the crawl
fetchFileContent(filePath) == filePath[Len(filePath)]

\* every item the API can report
RepoItems == UNION {SeqToSet(fetchDirectoryContents(d)) : d \in DOMAIN RepoTree}

(***************************************************************************)
(* fetchRepositoryStructure and crawlRepository                            *)
(***************************************************************************)

Frame(path) == [path |-> path, contents |-> <<>>, idx |-> 1, phase |-> "list"]

Top == stack[Len(stack)]

SetTop(f) == [stack EXCEPT ![Len(stack)] = f]

\* the innermost crawlRepository call returns; its caller's loop goes on
Return(s) ==
    LET rest == SubSeq(s, 1, Len(s) - 1)
    IN  IF rest = <<>> THEN rest
        ELSE [rest EXCEPT ![Len(rest)].idx = @ + 1]

\* crawlRepository without its try/catch: a listing error unwinds every call
catchListError_rethrow(s) == [stack |-> <<>>, thrown |-> TRUE]

\* catch of crawlRepository: the error is logged and the call returns normally
catchListError(s) == [stack |-> Return(s), thrown |-> FALSE]

\* inner catch around fetchFileContent: logged, the loop goes to the next item
catchContentError(f) == [f EXCEPT !.idx = @ + 1, !.phase = "loop"]

\* a slip that records only important files in allFiles
recordFile_important(list, item) ==
    IF isImportantFile(item.path) THEN Append(list, item.path) ELSE list

\* structure.allFiles.push(item.path)
recordFile(list, item) == Append(list, item.path)

\* a slip that pushes the entry's name instead of its path
recordDirectory_name(list, item) == Append(list, <<item.name>>)

\* structure.allDirectories.push(item.path)
recordDirectory(list, item) == Append(list, item.path)

\* function f with key k set to v
Put(f, k, v) == [x \in (DOMAIN f) \cup {k} |-> IF x = k THEN v ELSE f[x]]

determineComplexity ==
    LET totalFiles == Len(allFiles)
        totalDirs  == Len(allDirectories)
    IN  IF totalFiles > 50 \/ totalDirs > 15 THEN "complex"
        ELSE IF totalFiles > 20 \/ totalDirs > 8 THEN "moderate"
        ELSE "simple"

\* fetchRepositoryStructure builds the empty structure and calls crawlRepository('')
StartCrawl ==
    /\ status = "idle"
    /\ status' = "crawling"
    /\ stack' = <<Frame(<<>>)>>
    /\ listRequests' = listRequests \cup {<<>>}
    /\ UNCHANGED <<allFiles, allDirectories, fileContents, files, directories,
                   analysis, probeSize, listFailed, contentRequests, contentFailed,
                   visited, recordLog>>
    /\ UNCHANGED nonCrawlVars

\* fetchDirectoryContents resolves
ListOk ==
    /\ status = "crawling" /\ stack # <<>> /\ Top.phase = "list"
    /\ stack' = SetTop([Top EXCEPT !.contents = fetchDirectoryContents(Top.path),
                                   !.phase = "loop"])
    /\ UNCHANGED <<status, allFiles, allDirectories, fileContents, files, directories,
                   analysis, probeSize, listRequests, listFailed, contentRequests,
                   contentFailed, visited, recordLog>>
    /\ UNCHANGED nonCrawlVars

\* fetchDirectoryContents rejects
ListFail ==
    /\ status = "crawling" /\ stack # <<>> /\ Top.phase = "list"
    /\ listFailed' = listFailed \cup {Top.path}
    /\ LET r == catchListError(stack)
       IN  /\ stack' = r.stack
           /\ status' = IF r.thrown THEN "thrown" ELSE status
    /\ UNCHANGED <<allFiles, allDirectories, fileContents, files, directories,
                   analysis, probeSize, listRequests, contentRequests,
                   contentFailed, visited, recordLog>>
    /\ UNCHANGED nonCrawlVars

\* loop body for an item of type 'dir'
VisitDir ==
    /\ status = "crawling" /\ stack # <<>> /\ Top.phase = "loop"
    /\ Top.idx <= Len(Top.contents)
    /\ LET item == Top.contents[Top.idx]
       IN  /\ item.type = "dir"
           /\ visited' = visited \cup {item.path}
           /\ IF shouldSkipDirectory(item.path)
              THEN /\ stack' = SetTop([Top EXCEPT !.idx = @ + 1])
                   /\ UNCHANGED <<allDirectories, directories, listRequests, recordLog>>
              ELSE /\ allDirectories' = recordDirectory(allDirectories, item)
                   /\ recordLog' = Append(recordLog, allDirectories'[Len(allDirectories')])
                   /\ directories' = Put(directories, item.path, <<>>)
                   /\ stack' = Append(stack, Frame(item.path))
                   /\ listRequests' = listRequests \cup {item.path}
    /\ UNCHANGED <<status, allFiles, fileContents, files, analysis, probeSize,
                   listFailed, contentRequests, contentFailed>>
    /\ UNCHANGED nonCrawlVars

\* loop body for an item of type 'file', up to the await of fetchFileContent
VisitFile ==
    /\ status = "crawling" /\ stack # <<>> /\ Top.phase = "loop"
    /\ Top.idx <= Len(Top.contents)
    /\ LET item == Top.contents[Top.idx]
       IN  /\ item.type = "file"
           /\ visited' = visited \cup {item.path}
           /\ IF shouldSkipFile(item.path, item.size)
              THEN /\ stack' = SetTop([Top EXCEPT !.idx = @ + 1])
                   /\ UNCHANGED <<allFiles, contentRequests, recordLog>>
              ELSE /\ allFiles' = recordFile(allFiles, item)
                   /\ recordLog' = IF allFiles' = allFiles THEN recordLog
                                   ELSE Append(recordLog, allFiles'[Len(allFiles')])
                   /\ stack' = SetTop([Top EXCEPT !.phase = "content"])
                   /\ contentRequests' = contentRequests \cup {item.path}
    /\ UNCHANGED <<status, allDirectories, fileContents, files, directories, analysis,
                   probeSize, listRequests, listFailed, contentFailed>>
    /\ UNCHANGED nonCrawlVars

\* an item that is neither 'dir' nor 'file' (symlink, submodule): no branch taken
VisitOther ==
    /\ status = "crawling" /\ stack # <<>> /\ Top.phase = "loop"
    /\ Top.idx <= Len(Top.contents)
    /\ LET item == Top.contents[Top.idx]
       IN  /\ item.type \notin {"dir", "file"}
           /\ visited' = visited \cup {item.path}
           /\ stack' = SetTop([Top EXCEPT !.idx = @ + 1])
    /\ UNCHANGED <<status, allFiles, allDirectories, fileContents, files, directories,
                   analysis, probeSize, listRequests, listFailed, contentRequests,
                   contentFailed, recordLog>>
    /\ UNCHANGED nonCrawlVars

\* fetchFileContent resolves: the content is kept, important files also in files
ContentOk ==
    /\ status = "crawling" /\ stack # <<>> /\ Top.phase = "content"
    /\ LET item == Top.contents[Top.idx]
           content == fetchFileContent(item.path)
       IN  /\ fileContents' = Put(fileContents, item.path, content)
           /\ files' = IF isImportantFile(item.path)
                       THEN Put(files, item.path, content) ELSE files
    /\ stack' = SetTop([Top EXCEPT !.idx = @ + 1, !.phase = "loop"])
    /\ UNCHANGED <<status, allFiles, allDirectories, directories, analysis, probeSize,
                   listRequests, listFailed, contentRequests, contentFailed,
                   visited, recordLog>>
    /\ UNCHANGED nonCrawlVars

\* fetchFileContent rejects
ContentFail ==
    /\ status = "crawling" /\ stack # <<>> /\ Top.phase = "content"
    /\ contentFailed' = contentFailed \cup {Top.contents[Top.idx].path}
    /\ stack' = SetTop(catchContentError(Top))
    /\ UNCHANGED <<status, allFiles, allDirectories, fileContents, files, directories,
                   analysis, probeSize, listRequests, listFailed, contentRequests,
                   visited, recordLog>>
    /\ UNCHANGED nonCrawlVars

\* the for-loop is exhausted: crawlRepository returns to its caller
ReturnFromCrawl ==
    /\ status = "crawling" /\ stack # <<>> /\ Top.phase = "loop"
    /\ Top.idx > Len(Top.contents)
    /\ stack' = Return(stack)
    /\ UNCHANGED <<status, allFiles, allDirectories, fileContents, files, directories,
                   analysis, probeSize, listRequests, listFailed, contentRequests,
                   contentFailed, visited, recordLog>>
    /\ UNCHANGED nonCrawlVars

\* the root call has returned: analyzeAllFilesForPurpose, then return structure
FinishCrawl ==
    /\ status = "crawling" /\ stack = <<>>
    /\ analysis' = determineComplexity
    /\ status' = "returned"
    /\ UNCHANGED <<stack, allFiles, allDirectories, fileContents, files, directories,
                   probeSize, listRequests, listFailed, contentRequests,
                   contentFailed, visited, recordLog>>
    /\ UNCHANGED nonCrawlVars

EmptyMap == [x \in {} |-> <<>>]

InitCrawlVars ==
    /\ status = "idle"
    /\ stack = <<>>
    /\ allFiles = <<>>
    /\ allDirectories = <<>>
    /\ fileContents = EmptyMap
    /\ files = EmptyMap
    /\ directories = EmptyMap
    /\ analysis = "none"
    /\ listRequests = {}
    /\ listFailed = {}
    /\ contentRequests = {}
    /\ contentFailed = {}
    /\ visited = {}
    /\ recordLog = <<>>

InitScoreVars ==
    /\ pc = "idle"
    /\ criteriaResults = EmptyMap
    /\ score = 0
    /\ finalScore = -1

\* a date string as the GitHub API or a hackathon template gives it:
\* "iso" is a well-formed ISO date (day counted in days, hour in UTC hours;
\* a date-only string is hour 0), "garbage" a string Date cannot parse,
\* "undefined" a missing property, "null" a JSON null
DateString(kind, day, hour) == [kind |-> kind, day |-> day, hour |-> hour]
ISO(day, hour) == DateString("iso", day, hour)
Garbage == DateString("garbage", 0, 0)
Undefined == DateString("undefined", 0, 0)
Null == DateString("null", 0, 0)

\* repoData before fetchRepoData has returned
NoData ==
    [fetched |-> FALSE, created_at |-> Undefined, pushed_at |-> Undefined,
     fork |-> FALSE, contributors |-> 0,
     files |-> [defined |-> FALSE, names |-> {}]]

\* hackathonCriteria = null, the default of analyzeRepo
NoCriteria ==
    [isNull |-> TRUE, startDate |-> Undefined, deadline |-> Undefined,
     maxTeamSize |-> 0, mustBeOriginal |-> "undefined", demoRequired |-> "undefined"]

\* analyzeRepo has not returned yet
NoResult ==
    [kind |-> "none", criteriaResults |-> EmptyMap, finalScore |-> -1,
     intelligentAnalysis |-> "null"]

\* evaluateCodeQualityWithAI has not returned yet
NoEvaluation == [score |-> -1, feedback |-> "none"]

InitEligVars ==
    /\ remote = NoData
    /\ contributorsRequest = "none"
    /\ repoData = NoData
    /\ hackathonCriteria = NoCriteria
    /\ eligibilityResults = EmptyMap
    /\ eligible = TRUE

InitLlmVars ==
    /\ llm = "none"
    /\ llmFeasibility = "null"
    /\ result = NoResult
    /\ aiPc = "idle"
    /\ aiCall = "none"
    /\ aiResult = NoEvaluation

\* main before the first showMainMenu has answered
NoAnswers == [template |-> "none", hackathon |-> "none", saveResults |-> FALSE]

\* no report has been written
NoFile == [written |-> FALSE, template |-> "none", results |-> NoResult]

InitMenuVars ==
    /\ menuPc = "menu"
    /\ answers = NoAnswers
    /\ exitCause = "none"
    /\ analyses = 0
    /\ savedFile = NoFile

\* no calculate...Score function has been called
NotCalculated == [criterion |-> "none", raw |-> 0, score |-> -1]

\* a call site that has not called callTogetherAIWithTimeout
NotCalled ==
    [issued |-> FALSE, completion |-> "pending", timer |-> "unset",
     outcome |-> "pending", delivered |-> 0]

\* the labels of the call sites followed
Labels == {"hackathon feasibility", "code quality", "documentation"}

InitRaceVars == calls = [l \in Labels |-> NotCalled]

\* the analyzer runs stepped side by side
Runs == {1, 2}

\* analyzeRepository before its first step
NotStarted ==
    [pc |-> "idle",
     architecture |-> [pattern |-> "null", layers |-> <<>>, patterns |-> <<>>, quality |-> 0],
     coherence |-> [naming |-> 0, structure |-> 0, patterns |-> 0, thirds |-> 0],
     quality |-> [maintainability |-> 0, readability |-> 0, performance |-> 0,
                  security |-> 0, testability |-> 0, fifths |-> 0],
     returned |-> "none"]

\* the analysis object fetchRepositoryStructure starts from
NotScanned == [pc |-> "idle", projectPurpose |-> "null", source |-> "none"]

InitClassVars ==
    /\ runs = [r \in Runs |-> NotStarted]
    /\ purposeScan = NotScanned

\* getComprehensiveCodeAnalysis has not been called
NoAnalysis ==
    [obtained |-> FALSE, codeQuality |-> 0, documentation |-> 0, functionality |-> 0,
     innovation |-> 0, userExperience |-> 0]

InitCalcVars ==
    /\ calc = NotCalculated
    /\ comprehensiveAnalysis = NoAnalysis

Init ==
    /\ InitCrawlVars
    /\ InitScoreVars
    /\ InitEligVars
    /\ InitLlmVars
    /\ InitMenuVars
    /\ InitCalcVars
    /\ InitRaceVars
    /\ InitClassVars
    /\ probeSize \in ProbeSizes

NextCrawl ==
    \/ StartCrawl
    \/ ListOk
    \/ ListFail
    \/ VisitDir
    \/ VisitFile
    \/ VisitOther
    \/ ContentOk
    \/ ContentFail
    \/ ReturnFromCrawl
    \/ FinishCrawl

Spec == Init /\ [][NextCrawl]_vars

(***************************************************************************)
(* Scoring of analyzeRepo                                                  *)
(***************************************************************************)

\* a weight table that penalises one criterion
CRITERIA_WEIGHTS_penalty ==
    [codeQuality |-> 30, innovation |-> 25, functionality |-> 20,
     documentation |-> 35, userExperience |-> -10]

CRITERIA_WEIGHTS ==
    [codeQuality |-> 30, innovation |-> 25, functionality |-> 20,
     documentation |-> 15, userExperience |-> 10]

\* a template may list this many expected files and categories
MaxExpectedFiles == 14
MaxCategories == 3

Min(a, b) == IF a <= b THEN a ELSE b

Flag == {0, 1}

\* Math.round(score / 10) for a non-negative integer score: halves round up
MathRoundTenth(raw) == (raw + 5) \div 10

\* the scaling without its cap
ScaleToTen_uncapped(raw) == MathRoundTenth(raw)

\* Math.min(10, Math.round(score / 10))
ScaleToTen(raw) == Min(10, MathRoundTenth(raw))

\* 2 points per expected file found, 3 more per complete category, capped at 30
evaluateProjectStructure(found, complete) == Min(30, 2 * found + 3 * complete)

\* points of one main file: comments 0/3/5, formatting (always met) 5,
\* modern features, error handling and type safety 5 each
MainFilePoints == {c + 5 + 5 * k : c \in {0, 3, 5}, k \in 0..3}

\* the points n main files can add up to
RECURSIVE MainFilesPoints(_)
MainFilesPoints(n) ==
    IF n = 0 THEN {0}
    ELSE {a + b : a \in MainFilesPoints(n - 1), b \in MainFilePoints}

\* evaluateCodeQuality over the six main file names, capped at 25
evaluateCodeQuality == {Min(25, p) : p \in UNION {MainFilesPoints(n) : n \in 0..6}}

\* six security files worth 0, 5 or 10 each, two package checks and the
\* testing check worth 5 each, capped at 25
evaluateSecurityAndPerformance == {Min(25, 5 * k) : k \in 0..15}

\* build tools, CI/CD, containerization, database: 5 each, capped at 20
evaluateModernPractices == {Min(20, 5 * k) : k \in 0..4}

\* raw totals calculateCodeQualityScore can reach
CodeQualityRaw ==
    {evaluateProjectStructure(f, c) + q + s + m :
        f \in 0..MaxExpectedFiles, c \in 0..MaxCategories,
        q \in evaluateCodeQuality, s \in evaluateSecurityAndPerformance,
        m \in evaluateModernPractices}

\* raw totals calculateDocumentationScore can reach
DocumentationRaw ==
    {IF readme = 1 THEN 40 + 20 * structure + 20 * install + 20 * api ELSE 0 :
        readme \in Flag, structure \in Flag, install \in Flag, api \in Flag}

\* raw totals calculateFunctionalityScore can reach
FunctionalityRaw ==
    {index * (10 * db + 10 * routes + 10 * auth)
       + 10 * routeFiles + 10 * routesDir + 5 * controllers
       + 10 * models + pkg * (10 * orm + 5 * express)
       + index * (10 * env + 10 * port) :
        index \in Flag, db \in Flag, routes \in Flag, auth \in Flag,
        routeFiles \in Flag, routesDir \in Flag, controllers \in Flag,
        models \in Flag, pkg \in Flag, orm \in Flag, express \in Flag,
        env \in Flag, port \in Flag}

\* raw totals calculateInnovationScore can reach: 15 per advanced feature
\* (ten names), 10 per directory (six names), 20 for a testing setup
InnovationRaw ==
    {pkg * 15 * advanced + 10 * dirs + pkg * 20 * testing :
        pkg \in Flag, advanced \in 0..10, dirs \in 0..6, testing \in Flag}

\* raw totals calculateUserExperienceScore can reach
UserExperienceRaw ==
    {readme * (30 * api + 20 * example) + index * 25 * error + index * 25 * cors :
        readme \in Flag, api \in Flag, example \in Flag,
        index \in Flag, error \in Flag, cors \in Flag}

\* a copy-paste slip: every criterion weighted as code quality
Accumulate_copyPaste(sum, criterion, subscore) ==
    sum + subscore * CRITERIA_WEIGHTS.codeQuality

\* score += result.score * CRITERIA_WEIGHTS[criterion] / 100, kept in hundredths
Accumulate(sum, criterion, subscore) ==
    sum + subscore * CRITERIA_WEIGHTS[criterion]

\* score.toFixed(1), in tenths, of a score given in hundredths.  The binary
\* sum of the five terms lies above or below an exact decimal tie (0.35 is
\* printed "0.3", 0.25 is printed "0.3"), so a tie may go either way.
ToFixed1(hundredths) ==
    IF hundredths % 10 = 5
    THEN {hundredths \div 10, hundredths \div 10 + 1}
    ELSE {(hundredths + 5) \div 10}

Evaluate(criterion, raw, next) ==
    LET subscore == ScaleToTen(raw)
    IN  /\ criteriaResults' = Put(criteriaResults, criterion, subscore)
        /\ score' = Accumulate(score, criterion, subscore)
        /\ pc' = next
        /\ UNCHANGED finalScore
        /\ UNCHANGED nonScoreVars

\* let score = 0; let criteriaResults = {}; comprehensive analysis obtained
StartScoring ==
    /\ pc = "idle"
    /\ pc' = "codeQuality"
    /\ score' = 0
    /\ criteriaResults' = EmptyMap
    /\ UNCHANGED finalScore
    /\ UNCHANGED nonScoreVars

ScoreCodeQuality ==
    /\ pc = "codeQuality"
    /\ \E raw \in CodeQualityRaw : Evaluate("codeQuality", raw, "documentation")

ScoreDocumentation ==
    /\ pc = "documentation"
    /\ \E raw \in DocumentationRaw : Evaluate("documentation", raw, "functionality")

ScoreFunctionality ==
    /\ pc = "functionality"
    /\ \E raw \in FunctionalityRaw : Evaluate("functionality", raw, "innovation")

ScoreInnovation ==
    /\ pc = "innovation"
    /\ \E raw \in InnovationRaw : Evaluate("innovation", raw, "userExperience")

ScoreUserExperience ==
    /\ pc = "userExperience"
    /\ \E raw \in UserExperienceRaw : Evaluate("userExperience", raw, "final")

\* const finalScore = score.toFixed(1)
FinalScore ==
    /\ pc = "final"
    /\ finalScore' \in ToFixed1(score)
    /\ pc' = "done"
    /\ UNCHANGED <<criteriaResults, score>>
    /\ UNCHANGED nonScoreVars

InitScore ==
    /\ InitCrawlVars
    /\ InitScoreVars
    /\ InitEligVars
    /\ InitLlmVars
    /\ InitMenuVars
    /\ InitCalcVars
    /\ InitRaceVars
    /\ InitClassVars
    /\ probeSize = 512

NextScore ==
    \/ StartScoring
    \/ ScoreCodeQuality
    \/ ScoreDocumentation
    \/ ScoreFunctionality
    \/ ScoreInnovation
    \/ ScoreUserExperience
    \/ FinalScore

SpecScore == InitScore /\ [][NextScore]_vars

(***************************************************************************)
(* Properties of the crawl                                                 *)
(***************************************************************************)

FilePaths == SeqToSet(allFiles)
DirectoryPaths == SeqToSet(allDirectories)
ContentPaths == DOMAIN fileContents

\* the path contains a substring of the directory denylist
ContainsDenylisted(path) ==
    \E i \in 1..Len(skipPatterns) : Includes(PathChars(path), skipPatterns[i])

\* the path ends with an extension of the file denylist
HasDenylistedExtension(path) ==
    \E i \in 1..Len(skipExtensions) : EndsWith(PathChars(path), skipExtensions[i])

Parent(path) == SubSeq(path, 1, Len(path) - 1)

\* directory d is path p or an ancestor of it
IsPrefix(d, p) == Len(d) <= Len(p) /\ SubSeq(p, 1, Len(d)) = d

\* C1: every key of structure.fileContents is an element of structure.allFiles,
\* whatever mix of listings and content fetches succeeded or failed.
C1_ContentsAreListedFiles == ContentPaths \subseteq FilePaths

\* a finished crawl with failures of both kinds and some content kept
C1_Witness ==
    /\ status = "returned"
    /\ listFailed # {} /\ contentFailed # {}
    /\ ContentPaths # {}

\* C2: a directory whose path contains a denylisted substring is never added
\* to allDirectories, never listed, and no file beneath it is in allFiles or
\* fileContents.
C2_DenylistedDirectoriesUntouched ==
    \A it \in RepoItems :
        (it.type = "dir" /\ ContainsDenylisted(it.path)) =>
            /\ it.path \notin DirectoryPaths
            /\ it.path \notin listRequests
            /\ \A f \in FilePaths \cup ContentPaths : ~IsPrefix(it.path, f)

\* project/node_modules was met by the loop, and its sibling main.js was kept
C2_Witness ==
    /\ status = "returned"
    /\ <<"project", "node_modules">> \in visited
    /\ <<"node_modules">> \in visited
    /\ <<"project", "main.js">> \in FilePaths

\* C3: a file whose reported size exceeds 1 MiB is in neither allFiles nor
\* fileContents, whatever its extension, and its content is never requested.
C3_OversizedFilesExcluded ==
    \A it \in RepoItems :
        (it.type = "file" /\ it.size > 1048576) =>
            /\ it.path \notin FilePaths
            /\ it.path \notin ContentPaths
            /\ it.path \notin contentRequests

\* the 2,000,000-byte big.js and the 1 MiB + 1 edge.ts were met by the loop,
\* and index.js of exactly 1 MiB was kept
C3_Witness ==
    /\ status = "returned"
    /\ probeSize = 2000000
    /\ <<"big.js">> \in visited
    /\ <<"src", "edge.ts">> \in visited
    /\ <<"src", "index.js">> \in FilePaths

\* C4 as stated: no path in allFiles or allDirectories matches any skip
\* substring or any skip extension.
C4_NoPathMatchesAnySkipRule ==
    \A p \in FilePaths \cup DirectoryPaths :
        ~ContainsDenylisted(p) /\ ~HasDenylistedExtension(p)

\* C4 amended: no directory path contains a denylisted substring; no file path
\* ends with a denylisted extension or lies under a directory whose path
\* contains a denylisted substring.
C4_SkipRulesByKind ==
    /\ \A d \in DirectoryPaths : ~ContainsDenylisted(d)
    /\ \A f \in FilePaths :
          /\ ~HasDenylistedExtension(f)
          /\ ~ContainsDenylisted(Parent(f))

\* the file build.js and the directory assets.png were both recorded, and the
\* skipped yarn.lock, logo.png and layout were met
C4_Witness ==
    /\ status = "returned"
    /\ <<"build.js">> \in FilePaths
    /\ <<"assets.png">> \in DirectoryPaths
    /\ {<<"yarn.lock">>, <<"src", "logo.png">>, <<"layout">>} \subseteq visited

\* C5: only important files have their content fetched and retained.
C5_OnlyImportantContents ==
    \A f \in ContentPaths \cup contentRequests : isImportantFile(f)

\* C6: each proper parent directory of a recorded path is in allDirectories
\* and was recorded before the path.
C6_ParentsRecordedFirst ==
    /\ SeqToSet(recordLog) = FilePaths \cup DirectoryPaths
    /\ \A i \in 1..Len(recordLog) :
          \A n \in 1..(Len(recordLog[i]) - 1) :
              LET parent == SubSeq(recordLog[i], 1, n)
              IN  /\ parent \in DirectoryPaths
                  /\ \E j \in 1..(i - 1) : recordLog[j] = parent

\* a file two levels down and its directory were recorded
C6_Witness ==
    /\ status = "returned"
    /\ <<"src", "components", "Button.jsx">> \in FilePaths
    /\ <<"src", "components">> \in DirectoryPaths

\* C7: failures never abort the crawl: nothing is raised, and in the returned
\* inventory every entry of every listed directory was visited, every
\* non-denylisted directory was listed and every kept file's content requested.
C7_FailuresAreNotFatal ==
    /\ status # "thrown"
    /\ status = "returned" =>
          \A d \in listRequests \ listFailed :
              \A it \in SeqToSet(fetchDirectoryContents(d)) :
                  /\ it.path \in visited
                  /\ (it.type = "dir" /\ ~ContainsDenylisted(it.path))
                        => it.path \in listRequests
                  /\ (it.type = "file" /\ it.size <= 1048576
                        /\ ~HasDenylistedExtension(it.path))
                        => it.path \in contentRequests

\* the listing of src and the content of package.json failed, yet the later
\* sibling README.md and the other branch project/main.js were fetched
C7_Witness ==
    /\ status = "returned"
    /\ <<"src">> \in listFailed
    /\ <<"package.json">> \in contentFailed
    /\ <<"README.md">> \in ContentPaths
    /\ <<"project", "main.js">> \in ContentPaths

\* C8: when the listing of the repository root fails, no inventory is returned.
C8_RootFailureIsFatal == <<>> \in listFailed => status # "returned"

(***************************************************************************)
(* Properties of the final score                                           *)
(***************************************************************************)

RECURSIVE SumOver(_, _)
SumOver(S, f) ==
    IF S = {} THEN 0
    ELSE LET x == CHOOSE y \in S : TRUE
         IN  f[x] + SumOver(S \ {x}, f)

Criteria == DOMAIN CRITERIA_WEIGHTS

SumWeights == SumOver(Criteria, CRITERIA_WEIGHTS)

\* sum of subscores[k] * weights[k]
WeightedSum == SumOver(Criteria, [k \in Criteria |-> criteriaResults[k] * CRITERIA_WEIGHTS[k]])

\* C9 as stated: finalScore = sum(subscores[k] * weights[k]) / sum(weights);
\* finalScore is held in tenths.
C9_FinalIsExactAverage ==
    pc = "done" => finalScore * SumWeights = 10 * WeightedSum

\* C9 amended: the weight keys are the criteria keys, the weights sum to 100,
\* and finalScore is the weighted average rounded to one decimal, that is
\* within 0.05 of it.
C9_FinalIsRoundedAverage ==
    pc = "done" =>
        /\ DOMAIN criteriaResults = Criteria
        /\ SumWeights = 100
        /\ 2 * finalScore * SumWeights - 20 * WeightedSum <= SumWeights
        /\ 20 * WeightedSum - 2 * finalScore * SumWeights <= SumWeights

\* a final score whose second decimal was rounded away
C9_Witness ==
    /\ pc = "done"
    /\ WeightedSum % 10 = 5
    /\ criteriaResults.innovation = 1 /\ criteriaResults.functionality = 1

\* C10: the final score lies in [0,10]; it is 10 when all sub-scores are 10
\* and 0 when all are 0.
C10_FinalScoreInRange ==
    pc = "done" =>
        /\ finalScore >= 0 /\ finalScore <= 100
        /\ (\A k \in Criteria : criteriaResults[k] = 10) => finalScore = 100
        /\ (\A k \in Criteria : criteriaResults[k] = 0) => finalScore = 0

\* every criterion reached its maximum
C10_Witness ==
    /\ pc = "done"
    /\ \A k \in Criteria : criteriaResults[k] = 10
(***************************************************************************)
(* The five calculate...Score functions, one call each                      *)
(***************************************************************************)

\* return value of a calculate...Score function whose increments sum to raw
Calculate(criterion, raw) ==
    /\ calc' = [criterion |-> criterion, raw |-> raw, score |-> ScaleToTen(raw)]
    /\ UNCHANGED comprehensiveAnalysis
    /\ UNCHANGED <<crawlVars, scoreVars, eligVars, llmVars, menuVars, raceVars, classVars>>

calculateCodeQualityScore ==
    \E raw \in CodeQualityRaw : Calculate("codeQuality", raw)

calculateDocumentationScore ==
    \E raw \in DocumentationRaw : Calculate("documentation", raw)

calculateFunctionalityScore ==
    \E raw \in FunctionalityRaw : Calculate("functionality", raw)

calculateInnovationScore ==
    \E raw \in InnovationRaw : Calculate("innovation", raw)

calculateUserExperienceScore ==
    \E raw \in UserExperienceRaw : Calculate("userExperience", raw)

NextCalc ==
    \/ calculateCodeQualityScore
    \/ calculateDocumentationScore
    \/ calculateFunctionalityScore
    \/ calculateInnovationScore
    \/ calculateUserExperienceScore

SpecCalc == InitScore /\ [][NextCalc]_vars

(***************************************************************************)
(* Properties of the scoring, continued                                    *)
(***************************************************************************)

\* the running sum of analyzeRepo after all five criteria, for given sub-scores
analyzeRepo_score(results) ==
    Accumulate(
      Accumulate(
        Accumulate(
          Accumulate(
            Accumulate(0, "codeQuality", results.codeQuality),
            "documentation", results.documentation),
          "functionality", results.functionality),
        "innovation", results.innovation),
      "userExperience", results.userExperience)

\* C11: the final score is monotonically non-decreasing in each sub-score:
\* with the other sub-scores and the weights fixed, raising one sub-score
\* never gives a lower final score than the one analyzeRepo computed.
C11_FinalScoreMonotone ==
    pc = "done" =>
        \A c \in Criteria : \A v \in 0..10 :
            v > criteriaResults[c] =>
                \A raised \in ToFixed1(analyzeRepo_score(Put(criteriaResults, c, v))) :
                    raised >= finalScore

\* a finished scoring at a decimal tie, with a sub-score that could be higher
C11_Witness ==
    /\ pc = "done"
    /\ score % 10 = 5
    /\ finalScore = score \div 10 + 1
    /\ \E c \in Criteria : criteriaResults[c] < 10 /\ criteriaResults[c] > 0

\* C12: each calculate...Score function returns an integer in 0..10 for
\* every input, and a raw total above 100 is capped at 10.
C12_SubscoreInRange ==
    calc.criterion # "none" =>
        /\ calc.score \in 0..10
        /\ calc.raw > 100 => calc.score = 10

\* a raw total above 100 (only innovation can exceed it) was capped
C12_Witness ==
    /\ calc.criterion = "innovation"
    /\ calc.raw > 100
    /\ calc.score = 10

(***************************************************************************)
(* fetchRepoData and the hackathon eligibility check of analyzeRepo        *)
(***************************************************************************)

\* at most this many contributors are listed for a repository
MaxContributors == 5

\* the team limit of the bundled hackathon template
TemplateTeamSize == 4

\* repositories the GitHub API may describe: created around day 182
\* (2025-07-01), last pushed around day 188 (2025-07-07)
RemoteRepos ==
    {[fetched |-> TRUE, created_at |-> c, pushed_at |-> p, fork |-> f,
      contributors |-> n, files |-> [defined |-> TRUE, names |-> names]] :
        c \in {Garbage, ISO(181, 12), ISO(182, 0), ISO(183, 9)},
        p \in {Garbage, Null, ISO(188, 0), ISO(188, 10)},
        f \in BOOLEAN,
        n \in 0..MaxContributors,
        names \in {{"README.md", "index.js"}, {"README.md", "Demo.mp4"}}}

\* hackathonCriteria arguments: null, or a template object.  maxTeamSize 0
\* stands for every falsy value (0, null, absent); the two flags are "true",
\* "false" or "undefined" (absent).
CriteriaChoices ==
    {NoCriteria} \cup
    {[isNull |-> FALSE, startDate |-> s, deadline |-> d, maxTeamSize |-> m,
      mustBeOriginal |-> o, demoRequired |-> r] :
        s \in {Undefined, Garbage, ISO(182, 0)},
        d \in {Undefined, Garbage, ISO(188, 0)},
        m \in {0, TemplateTeamSize},
        o \in {"undefined", "true", "false"},
        r \in {"undefined", "true", "false"}}

\* a failed contributors request leaves no list, which the team rule counts as 1
fetchRepoData_noList(data, contributorsOk) ==
    [fetched |-> TRUE,
     created_at |-> data.created_at,
     pushed_at |-> data.pushed_at,
     fork |-> data.fork,
     contributors |-> IF contributorsOk THEN data.contributors ELSE 1,
     files |-> [defined |-> FALSE, names |-> {}]]

\* the object fetchRepoData returns.  A failed contributors request leaves
\* contributors = []; no property `files` is set.  contributors is kept as
\* the length of the array.
fetchRepoData(data, contributorsOk) ==
    [fetched |-> TRUE,
     created_at |-> data.created_at,
     pushed_at |-> data.pushed_at,
     fork |-> data.fork,
     contributors |-> IF contributorsOk THEN data.contributors ELSE 0,
     files |-> [defined |-> FALSE, names |-> {}]]

\* the time value of an invalid Date
NaN == -1

\* new Date(s): hours since the epoch; the epoch itself for null
NewDate(s) ==
    CASE s.kind = "iso" -> s.day * 24 + s.hour
      [] s.kind = "null" -> 0
      [] OTHER -> NaN

\* a check that lets every Date through
isNaN_lenient(t) == FALSE

isNaN(t) == t = NaN

\* date.toISOString().slice(0,10), as a day number
toISODate(t) == t \div 24

\* one eligibilityResults string: its verdict word, its wording and the
\* numbers printed in it
Outcome(verdict, text, n, m) == [verdict |-> verdict, text |-> text, n |-> n, m |-> m]

\* created on the start instant counts as before it
createdBeforeStart_inclusive(repoCreated, hackathonStart) ==
    repoCreated # NaN /\ hackathonStart # NaN /\ repoCreated <= hackathonStart

\* repoCreated < hackathonStart (false when either side is an invalid Date)
createdBeforeStart(repoCreated, hackathonStart) ==
    repoCreated # NaN /\ hackathonStart # NaN /\ repoCreated < hackathonStart

\* repoPushed > hackathonEnd (false when either side is an invalid Date)
pushedAfterDeadline(repoPushed, hackathonEnd) ==
    repoPushed # NaN /\ hackathonEnd # NaN /\ repoPushed > hackathonEnd

\* 1. Date check: the four parses, then the two comparisons
dateCheck(rd, hc) ==
    LET repoCreated == NewDate(rd.created_at)
        repoPushed == NewDate(rd.pushed_at)
        hackathonStart == NewDate(hc.startDate)
        hackathonEnd == NewDate(hc.deadline)
        e1 == IF isNaN(repoCreated)
              THEN Put(EmptyMap, "startDate",
                       Outcome("ERROR", "Invalid or missing repo created_at date", 0, 0))
              ELSE EmptyMap
        e2 == IF isNaN(repoPushed)
              THEN Put(e1, "deadline",
                       Outcome("ERROR", "Invalid or missing repo pushed_at date", 0, 0))
              ELSE e1
        e3 == IF isNaN(hackathonStart)
              THEN Put(e2, "startDate",
                       Outcome("ERROR", "Invalid or missing hackathon startDate", 0, 0))
              ELSE e2
        e4 == IF isNaN(hackathonEnd)
              THEN Put(e3, "deadline",
                       Outcome("ERROR", "Invalid or missing hackathon deadline", 0, 0))
              ELSE e3
        compareStart == ~isNaN(repoCreated) /\ ~isNaN(hackathonStart)
        compareEnd == ~isNaN(repoPushed) /\ ~isNaN(hackathonEnd)
        e5 == IF compareStart
              THEN Put(e4, "startDate",
                       IF createdBeforeStart(repoCreated, hackathonStart)
                       THEN Outcome("FAIL", "Repo created before hackathon",
                                    toISODate(repoCreated), 0)
                       ELSE Outcome("PASS", "", toISODate(repoCreated), 0))
              ELSE e4
        e6 == IF compareEnd
              THEN Put(e5, "deadline",
                       IF pushedAfterDeadline(repoPushed, hackathonEnd)
                       THEN Outcome("FAIL", "Last commit after deadline",
                                    toISODate(repoPushed), 0)
                       ELSE Outcome("PASS", "", toISODate(repoPushed), 0))
              ELSE e5
        datePass ==
            /\ ~isNaN(repoCreated)
            /\ ~isNaN(repoPushed)
            /\ ~isNaN(hackathonStart)
            /\ ~isNaN(hackathonEnd)
            /\ ~(compareStart /\ createdBeforeStart(repoCreated, hackathonStart))
            /\ ~(compareEnd /\ pushedAfterDeadline(repoPushed, hackathonEnd))
    IN  [results |-> e6, pass |-> datePass]

\* a team exactly at the limit counts as too large
teamTooLarge_atLimit(contributors, maxTeamSize) == contributors >= maxTeamSize

\* contributors > hackathonCriteria.maxTeamSize
teamTooLarge(contributors, maxTeamSize) == contributors > maxTeamSize

\* 2. Team size: evaluated only for a truthy maxTeamSize
teamSizeCheck(results, rd, hc) ==
    IF hc.maxTeamSize # 0
    THEN LET contributors == rd.contributors
         IN  IF teamTooLarge(contributors, hc.maxTeamSize)
             THEN [results |-> Put(results, "maxTeamSize",
                                   Outcome("FAIL", "", contributors, hc.maxTeamSize)),
                   pass |-> FALSE]
             ELSE [results |-> Put(results, "maxTeamSize",
                                   Outcome("PASS", "", contributors, hc.maxTeamSize)),
                   pass |-> TRUE]
    ELSE [results |-> results, pass |-> TRUE]

\* every fork is rejected, whatever mustBeOriginal says
forbiddenFork_anyFork(fork, mustBeOriginal) == fork

\* repoData.fork && hackathonCriteria.mustBeOriginal
forbiddenFork(fork, mustBeOriginal) == fork /\ mustBeOriginal = "true"

\* 3. Originality: evaluated when mustBeOriginal is not undefined
originalityCheck(results, rd, hc) ==
    IF hc.mustBeOriginal # "undefined"
    THEN IF forbiddenFork(rd.fork, hc.mustBeOriginal)
         THEN [results |-> Put(results, "mustBeOriginal",
                               Outcome("FAIL", "Repository is a fork", 0, 0)),
               pass |-> FALSE]
         ELSE [results |-> Put(results, "mustBeOriginal",
                               Outcome("PASS", "Original repository", 0, 0)),
               pass |-> TRUE]
    ELSE [results |-> results, pass |-> TRUE]

\* repoData.files && Object.keys(repoData.files).some(
\*     f => f.toLowerCase().includes('demo'))
hasDemo(rd) ==
    /\ rd.files.defined
    /\ \E f \in rd.files.names :
           Includes(toLowerCase(Chars[f]), <<"d", "e", "m", "o">>)

\* 4. Demo: evaluated when demoRequired is not undefined
demoCheck(results, rd, hc) ==
    IF hc.demoRequired # "undefined"
    THEN IF hc.demoRequired = "true" /\ ~hasDemo(rd)
         THEN [results |-> Put(results, "demoRequired",
                               Outcome("FAIL", "No demo file found", 0, 0)),
               pass |-> FALSE]
         ELSE IF hc.demoRequired = "true"
         THEN [results |-> Put(results, "demoRequired",
                               Outcome("PASS", "Demo file found", 0, 0)),
               pass |-> TRUE]
         ELSE [results |-> Put(results, "demoRequired", Outcome("N/A", "", 0, 0)),
               pass |-> TRUE]
    ELSE [results |-> results, pass |-> TRUE]

\* the flag is overwritten instead of conjoined: the last rule decides
eligibleAnd_overwrite(e, pass) == pass

\* eligible = eligible && pass
eligibleAnd(e, pass) == e /\ pass

\* the whole eligibility block: results and verdict for repoData rd under
\* criteria hc; nothing is evaluated for hackathonCriteria = null
eligibilityCheck(rd, hc) ==
    IF hc.isNull
    THEN [results |-> EmptyMap, eligible |-> TRUE]
    ELSE LET date == dateCheck(rd, hc)
             team == teamSizeCheck(date.results, rd, hc)
             originality == originalityCheck(team.results, rd, hc)
             demo == demoCheck(originality.results, rd, hc)
             afterDate == eligibleAnd(TRUE, date.pass)
             afterTeam == IF hc.maxTeamSize # 0
                          THEN eligibleAnd(afterDate, team.pass) ELSE afterDate
             afterOriginality == IF hc.mustBeOriginal # "undefined"
                                 THEN eligibleAnd(afterTeam, originality.pass)
                                 ELSE afterTeam
             afterDemo == IF hc.demoRequired # "undefined"
                          THEN eligibleAnd(afterOriginality, demo.pass)
                          ELSE afterOriginality
         IN  [results |-> demo.results, eligible |-> afterDemo]

\* const repoData = await fetchRepoData(owner, repo): the repository
\* request succeeds, the contributors request succeeds or fails
FetchRepoDataOk ==
    /\ pc = "fetch"
    /\ \E data \in RemoteRepos, contributorsOk \in BOOLEAN :
           /\ remote' = data
           /\ contributorsRequest' = IF contributorsOk THEN "ok" ELSE "failed"
           /\ repoData' = fetchRepoData(data, contributorsOk)
    /\ pc' = "eligibility"
    /\ UNCHANGED <<hackathonCriteria, eligibilityResults, eligible>>
    /\ UNCHANGED <<criteriaResults, score, finalScore>>
    /\ UNCHANGED <<crawlVars, llmVars, menuVars, calcVars, raceVars, classVars>>

\* the repository request fails: fetchRepoData rethrows, the catch of
\* analyzeRepo returns null
FetchRepoDataFail ==
    /\ pc = "fetch"
    /\ pc' = "returned"
    /\ result' = [NoResult EXCEPT !.kind = "null"]
    /\ UNCHANGED <<llm, llmFeasibility, aiPc, aiCall, aiResult>>
    /\ UNCHANGED <<criteriaResults, score, finalScore>>
    /\ UNCHANGED <<crawlVars, eligVars, menuVars, calcVars, raceVars, classVars>>

\* the verdict stops the analysis of a repository that is not eligible
afterEligibility_gate(verdict) == IF verdict THEN "idle" ELSE "returned"

\* after the verdict is printed, analyzeRepo goes on with `let score = 0`
\* whatever the verdict
afterEligibility(verdict) == "idle"

\* the hackathon eligibility block, then on to the scoring
CheckEligibility ==
    /\ pc = "eligibility"
    /\ LET check == eligibilityCheck(repoData, hackathonCriteria)
       IN  /\ eligibilityResults' = check.results
           /\ eligible' = check.eligible
           /\ pc' = afterEligibility(check.eligible)
    /\ UNCHANGED <<remote, contributorsRequest, repoData, hackathonCriteria>>
    /\ UNCHANGED <<criteriaResults, score, finalScore>>
    /\ UNCHANGED <<crawlVars, llmVars, menuVars, calcVars, raceVars, classVars>>

InitEligibility ==
    /\ InitCrawlVars
    /\ probeSize = 512
    /\ pc = "fetch"
    /\ criteriaResults = EmptyMap
    /\ score = 0
    /\ finalScore = -1
    /\ remote = NoData
    /\ contributorsRequest = "none"
    /\ repoData = NoData
    /\ hackathonCriteria \in CriteriaChoices
    /\ eligibilityResults = EmptyMap
    /\ eligible = TRUE
    /\ InitLlmVars
    /\ InitMenuVars
    /\ InitCalcVars
    /\ InitRaceVars
    /\ InitClassVars

NextEligibility ==
    \/ FetchRepoDataOk
    \/ FetchRepoDataFail
    \/ CheckEligibility

SpecEligibility == InitEligibility /\ [][NextEligibility]_vars

(***************************************************************************)
(* Properties of the eligibility check                                     *)
(***************************************************************************)

\* the eligibility block has run with criteria
Checked == pc = "idle" /\ ~hackathonCriteria.isNull

WellFormed(s) == s.kind = "iso"
Malformed(s) == s.kind \in {"garbage", "undefined"}

\* the instant a well-formed date string denotes, in hours
Instant(s) == 24 * s.day + s.hour

Evaluated(rule) == rule \in DOMAIN eligibilityResults
Verdict(rule) == eligibilityResults[rule].verdict

\* C13: with well-formed dates on both sides, the startDate rule is FAIL
\* exactly when created_at is earlier than startDate and PASS otherwise, and
\* the deadline rule is FAIL exactly when pushed_at is later than deadline
\* and PASS otherwise.
C13_DateRules ==
    Checked =>
        /\ (WellFormed(repoData.created_at) /\ WellFormed(hackathonCriteria.startDate)) =>
               /\ Evaluated("startDate")
               /\ Verdict("startDate") =
                      IF Instant(repoData.created_at) < Instant(hackathonCriteria.startDate)
                      THEN "FAIL" ELSE "PASS"
        /\ (WellFormed(repoData.pushed_at) /\ WellFormed(hackathonCriteria.deadline)) =>
               /\ Evaluated("deadline")
               /\ Verdict("deadline") =
                      IF Instant(repoData.pushed_at) > Instant(hackathonCriteria.deadline)
                      THEN "FAIL" ELSE "PASS"

\* created on the very start instant (PASS), pushed ten hours into the
\* deadline day (FAIL)
C13_Witness ==
    /\ Checked
    /\ repoData.created_at = ISO(182, 0) /\ hackathonCriteria.startDate = ISO(182, 0)
    /\ Verdict("startDate") = "PASS"
    /\ repoData.pushed_at = ISO(188, 10) /\ hackathonCriteria.deadline = ISO(188, 0)
    /\ Verdict("deadline") = "FAIL"

\* C14: when maxTeamSize is configured, the team rule is FAIL exactly when
\* the number of contributors exceeds it and PASS otherwise, and the outcome
\* reports both counts.
C14_TeamRule ==
    (Checked /\ hackathonCriteria.maxTeamSize # 0) =>
        /\ Evaluated("maxTeamSize")
        /\ Verdict("maxTeamSize") =
               IF repoData.contributors > hackathonCriteria.maxTeamSize
               THEN "FAIL" ELSE "PASS"
        /\ eligibilityResults["maxTeamSize"].n = repoData.contributors
        /\ eligibilityResults["maxTeamSize"].m = hackathonCriteria.maxTeamSize

\* a team exactly at the limit of four passes, reported as 4/4
C14_Witness ==
    /\ Checked
    /\ hackathonCriteria.maxTeamSize = 4
    /\ remote.contributors = 4 /\ repoData.contributors = 4
    /\ Verdict("maxTeamSize") = "PASS"
    /\ eligibilityResults["maxTeamSize"].n = 4
    /\ eligibilityResults["maxTeamSize"].m = 4

\* C15: the originality rule fails exactly when mustBeOriginal is true and
\* the repository is a fork; a non-fork repository passes whatever the
\* value of mustBeOriginal.
C15_OriginalityRule ==
    Checked =>
        /\ (Evaluated("mustBeOriginal") /\ Verdict("mustBeOriginal") = "FAIL")
               <=> (hackathonCriteria.mustBeOriginal = "true" /\ repoData.fork)
        /\ (hackathonCriteria.mustBeOriginal # "undefined" /\ ~repoData.fork) =>
               (Evaluated("mustBeOriginal") /\ Verdict("mustBeOriginal") = "PASS")

\* a fork passes when originality is not demanded
C15_Witness ==
    /\ Checked
    /\ repoData.fork
    /\ hackathonCriteria.mustBeOriginal = "false"
    /\ Verdict("mustBeOriginal") = "PASS"

\* the repository holds a file whose name contains "demo", in any case
RepositoryHasDemoFile ==
    \E f \in remote.files.names :
        \E i \in 1..(Len(Chars[f]) - 3) :
            /\ Chars[f][i] \in {"d", "D"}
            /\ Chars[f][i + 1] \in {"e", "E"}
            /\ Chars[f][i + 2] \in {"m", "M"}
            /\ Chars[f][i + 3] \in {"o", "O"}

\* C16: when demoRequired is true, the demo rule passes if any file name of
\* the repository contains "demo" (case-insensitive), and fails only if
\* none does.
C16_DemoFilePasses ==
    (Checked /\ hackathonCriteria.demoRequired = "true") =>
        (Verdict("demoRequired") = "PASS" <=> RepositoryHasDemoFile)

\* C17: the overall verdict is eligible exactly when every evaluated rule
\* outcome is PASS or N/A; any FAIL or ERROR makes it false.
C17_EligibleIffAllPass ==
    pc = "idle" =>
        (eligible <=> \A rule \in DOMAIN eligibilityResults :
                          Verdict(rule) \in {"PASS", "N/A"})

\* eligible with all five rules evaluated
C17_Witness ==
    /\ Checked
    /\ eligible
    /\ DOMAIN eligibilityResults =
           {"startDate", "deadline", "maxTeamSize", "mustBeOriginal", "demoRequired"}
    /\ Verdict("demoRequired") = "N/A"

\* well-formed dates to put in the place of a malformed one
WellFormedDates == {ISO(181, 12), ISO(182, 0), ISO(183, 9), ISO(188, 0), ISO(188, 10)}

\* the rules other than `rule` come out the same in both result maps
SameOutcomesExcept(rule, results, other) ==
    \A r \in ((DOMAIN results) \cup (DOMAIN other)) \ {rule} :
        /\ r \in DOMAIN results
        /\ r \in DOMAIN other
        /\ results[r] = other[r]

\* every rule the criteria configure has an outcome
AllRulesEvaluated ==
    /\ Evaluated("startDate")
    /\ Evaluated("deadline")
    /\ hackathonCriteria.maxTeamSize # 0 => Evaluated("maxTeamSize")
    /\ hackathonCriteria.mustBeOriginal # "undefined" => Evaluated("mustBeOriginal")
    /\ hackathonCriteria.demoRequired # "undefined" => Evaluated("demoRequired")

callTogetherAIWithTimeout == {"resolved", "malformed", "rejected", "timeout"}

\* the outcomes that throw inside the caller's try block
Throws(outcome) == outcome \in {"malformed", "rejected", "timeout"}

\* texts the model may answer with: the number an explicit "N/10" or
\* "score: N" pattern yields (in tenths, -1 without such a pattern) and the
\* score of the first keyword line that matches (0 when none does)
Evaluations ==
       ("Score: 8.5/10" :> [explicit |-> 85, keyword |-> 9])
    @@ ("I rate it 12/10" :> [explicit |-> 120, keyword |-> 9])
    @@ ("looks decent" :> [explicit |-> -1, keyword |-> 6])
    @@ ("no opinion" :> [explicit |-> -1, keyword |-> 0])

\* evaluateAIResponse: explicit score in range, else keyword, else 5
evaluateAIResponse(responseContent) ==
    LET found == Evaluations[responseContent]
    IN  IF found.explicit >= 0 /\ found.explicit <= 100
        THEN MathRoundTenth(found.explicit)
        ELSE IF found.keyword # 0 THEN found.keyword
        ELSE 5

\* the catch rethrows instead of only warning
catchFeasibilityError_rethrow(outcome) == [thrown |-> TRUE]

\* catch (e) { console.warn('LLM feasibility check failed:', e.message); }
catchFeasibilityError(outcome) == [thrown |-> FALSE]

\* if (hackathonCriteria && repoData.commits && repoData.contributors):
\* both arrays are always present, the prompt is built, the call is issued
FeasibilityCall ==
    /\ pc = "done"
    /\ ~hackathonCriteria.isNull
    /\ llm = "none"
    /\ llm' = "pending"
    /\ UNCHANGED <<pc, llmFeasibility, result, aiPc, aiCall, aiResult>>
    /\ UNCHANGED <<criteriaResults, score, finalScore>>
    /\ UNCHANGED <<crawlVars, eligVars, menuVars, calcVars, raceVars, classVars>>

\* without criteria the feasibility block is skipped
FeasibilitySkip ==
    /\ pc = "done"
    /\ hackathonCriteria.isNull
    /\ pc' = "intelligent"
    /\ UNCHANGED <<llm, llmFeasibility, result, aiPc, aiCall, aiResult>>
    /\ UNCHANGED <<criteriaResults, score, finalScore>>
    /\ UNCHANGED <<crawlVars, eligVars, menuVars, calcVars, raceVars, classVars>>

\* the awaited call settles: the judgment is kept, or the catch runs
FeasibilitySettle ==
    /\ pc = "done"
    /\ llm = "pending"
    /\ \E outcome \in callTogetherAIWithTimeout :
           /\ llm' = outcome
           /\ IF ~Throws(outcome)
              THEN /\ llmFeasibility' = "judgment"
                   /\ pc' = "intelligent"
                   /\ UNCHANGED result
              ELSE IF catchFeasibilityError(outcome).thrown
              THEN /\ pc' = "returned"
                   /\ result' = [NoResult EXCEPT !.kind = "null"]
                   /\ UNCHANGED llmFeasibility
              ELSE /\ pc' = "intelligent"
                   /\ UNCHANGED <<llmFeasibility, result>>
    /\ UNCHANGED <<aiPc, aiCall, aiResult>>
    /\ UNCHANGED <<criteriaResults, score, finalScore>>
    /\ UNCHANGED <<crawlVars, eligVars, menuVars, calcVars, raceVars, classVars>>

\* the intelligent analysis (null when it failed) and the returned object
ReturnResult ==
    /\ pc = "intelligent"
    /\ \E intelligentAnalysis \in {"null", "object"} :
           result' = [kind |-> "object", criteriaResults |-> criteriaResults,
                      finalScore |-> finalScore,
                      intelligentAnalysis |-> intelligentAnalysis]
    /\ pc' = "returned"
    /\ UNCHANGED <<llm, llmFeasibility, aiPc, aiCall, aiResult>>
    /\ UNCHANGED <<criteriaResults, score, finalScore>>
    /\ UNCHANGED <<crawlVars, eligVars, menuVars, calcVars, raceVars, classVars>>

\* what every AI evaluator returns from its catch block
evaluatorDefault ==
    [score |-> 5, feedback |-> "Error or timeout during code quality evaluation."]

\* const codeSample = await getCodeSample(repoData)
EvaluatorStart ==
    /\ aiPc = "idle"
    /\ aiPc' = "sampling"
    /\ UNCHANGED <<llm, llmFeasibility, result, aiCall, aiResult>>
    /\ UNCHANGED <<crawlVars, scoreVars, eligVars, menuVars, calcVars, raceVars, classVars>>

\* no code sample: the default score, without any call
EvaluatorNoSample ==
    /\ aiPc = "sampling"
    /\ aiPc' = "returned"
    /\ aiResult' = [score |-> 5, feedback |-> "No code sample available."]
    /\ UNCHANGED <<llm, llmFeasibility, result, aiCall>>
    /\ UNCHANGED <<crawlVars, scoreVars, eligVars, menuVars, calcVars, raceVars, classVars>>

\* a code sample was found: the call is issued inside the try block
EvaluatorCall ==
    /\ aiPc = "sampling"
    /\ aiPc' = "calling"
    /\ aiCall' = "pending"
    /\ UNCHANGED <<llm, llmFeasibility, result, aiResult>>
    /\ UNCHANGED <<crawlVars, scoreVars, eligVars, menuVars, calcVars, raceVars, classVars>>

\* the awaited call settles: the parsed score with the model's text as
\* feedback, or the catch block's default
EvaluatorSettle ==
    /\ aiPc = "calling"
    /\ \E outcome \in callTogetherAIWithTimeout :
           /\ aiCall' = outcome
           /\ IF ~Throws(outcome)
              THEN \E evaluation \in DOMAIN Evaluations :
                       aiResult' = [score |-> evaluateAIResponse(evaluation),
                                    feedback |-> evaluation]
              ELSE aiResult' = evaluatorDefault
    /\ aiPc' = "returned"
    /\ UNCHANGED <<llm, llmFeasibility, result>>
    /\ UNCHANGED <<crawlVars, scoreVars, eligVars, menuVars, calcVars, raceVars, classVars>>

\* raw totals the scored starting points are taken from
SampleRaw == {0, 45, 100}

\* a repository and the bundled template, for the analyses that reach the
\* feasibility check
SampleRemote ==
    [fetched |-> TRUE, created_at |-> ISO(183, 9), pushed_at |-> ISO(188, 0),
     fork |-> FALSE, contributors |-> 3,
     files |-> [defined |-> TRUE, names |-> {"README.md", "index.js"}]]

TemplateCriteria ==
    [isNull |-> FALSE, startDate |-> ISO(182, 0), deadline |-> ISO(188, 0),
     maxTeamSize |-> TemplateTeamSize, mustBeOriginal |-> "true",
     demoRequired |-> "false"]

\* analyzeRepo right after `const finalScore = score.toFixed(1)`, for some
\* sub-scores the five functions can return; the evaluator not yet called
InitLlm ==
    /\ InitCrawlVars
    /\ probeSize = 512
    /\ pc = "done"
    /\ \E q \in CodeQualityRaw \cap SampleRaw, d \in DocumentationRaw \cap SampleRaw,
          f \in FunctionalityRaw \cap SampleRaw, i \in InnovationRaw \cap SampleRaw,
          u \in UserExperienceRaw \cap SampleRaw :
           criteriaResults =
               [codeQuality |-> ScaleToTen(q), documentation |-> ScaleToTen(d),
                functionality |-> ScaleToTen(f), innovation |-> ScaleToTen(i),
                userExperience |-> ScaleToTen(u)]
    /\ score = analyzeRepo_score(criteriaResults)
    /\ finalScore \in ToFixed1(score)
    /\ remote = SampleRemote
    /\ contributorsRequest = "ok"
    /\ repoData = fetchRepoData(SampleRemote, TRUE)
    /\ hackathonCriteria \in {NoCriteria, TemplateCriteria}
    /\ eligibilityResults = eligibilityCheck(repoData, hackathonCriteria).results
    /\ eligible = eligibilityCheck(repoData, hackathonCriteria).eligible
    /\ InitLlmVars
    /\ InitMenuVars
    /\ InitCalcVars
    /\ InitRaceVars
    /\ InitClassVars

NextLlm ==
    \/ FeasibilityCall
    \/ FeasibilitySkip
    \/ FeasibilitySettle
    \/ ReturnResult
    \/ EvaluatorStart
    \/ EvaluatorNoSample
    \/ EvaluatorCall
    \/ EvaluatorSettle

SpecLlm == InitLlm /\ [][NextLlm]_vars

(***************************************************************************)
(* Properties of the Together AI calls                                     *)
(***************************************************************************)

\* C19: an LLM failure or timeout never aborts an analysis: when the
\* feasibility call fails, analyzeRepo still returns its result object with
\* the criteria scores and final score it had computed; and an AI evaluator
\* whose call fails or times out returns the default score 5 with an
\* explanatory feedback.
C19_LlmFailureIsNotFatal ==
    /\ (pc = "returned" /\ Throws(llm)) =>
           /\ result.kind = "object"
           /\ result.criteriaResults = criteriaResults
           /\ result.finalScore = finalScore
           /\ result.finalScore \in
                  {WeightedSum \div 10, (WeightedSum + 5) \div 10, WeightedSum \div 10 + 1}
    /\ (aiPc = "returned" /\ Throws(aiCall)) =>
           /\ aiResult.score = 5
           /\ aiResult.feedback = "Error or timeout during code quality evaluation."

\* the feasibility call timed out and the analysis returned its scores,
\* while the evaluator's call was rejected and it returned the default
C19_Witness ==
    /\ pc = "returned"
    /\ llm = "timeout"
    /\ result.kind = "object"
    /\ result.finalScore = finalScore
    /\ finalScore > 0
    /\ aiPc = "returned"
    /\ aiCall = "rejected"
    /\ aiResult.score = 5

(***************************************************************************)
(* The interactive loop of menu.js                                         *)
(***************************************************************************)

\* the loop is followed for this many analyses
MaxAnalyses == 3

\* what the user may answer to the questions of showMainMenu
MenuAnswers ==
    [template : {"auto", "nodejs", "view_templates", "exit"},
     hackathon : {"null", "summer-hack"},
     saveResults : BOOLEAN]

\* a result object analyzeRepo may return: the best sub-scores
SampleResult ==
    LET best == [k \in {"codeQuality", "documentation", "functionality",
                        "innovation", "userExperience"} |-> ScaleToTen(100)]
    IN  [kind |-> "object", criteriaResults |-> best,
         finalScore |-> (analyzeRepo_score(best) + 5) \div 10,
         intelligentAnalysis |-> "object"]

\* how the awaited analyzeRepo can settle in runAnalysis: an object, null
\* (its own catch), or an exception
AnalysisOutcomes ==
    {SampleResult, [NoResult EXCEPT !.kind = "null"], [NoResult EXCEPT !.kind = "thrown"]}

\* a fatal failure leaves the loop
runAnalysis_exitOnFailure(outcome) ==
    IF outcome.kind = "object" THEN "continue" ELSE "ended"

\* runAnalysis after the await: results are displayed, or the failure is
\* printed (else branch, catch); either way it returns to main, which
\* shows the continue options
runAnalysis(outcome) == "continue"

\* showMainMenu cannot load its templates (JSON.parse throws): main's catch
MenuFails ==
    /\ UNCHANGED savedFile
    /\ menuPc = "menu"
    /\ menuPc' = "retry"
    /\ UNCHANGED <<answers, exitCause, analyses>>
    /\ UNCHANGED <<crawlVars, scoreVars, eligVars, llmVars, calcVars, raceVars, classVars>>

\* template 'exit': process.exit(0) inside showMainMenu
MenuExit ==
    /\ UNCHANGED savedFile
    /\ menuPc = "menu"
    /\ \E a \in MenuAnswers :
           /\ a.template = "exit"
           /\ answers' = a
    /\ menuPc' = "exited"
    /\ exitCause' = "menu exit"
    /\ UNCHANGED analyses
    /\ UNCHANGED <<crawlVars, scoreVars, eligVars, llmVars, calcVars, raceVars, classVars>>

\* template 'view_templates': showTemplatesMenu, then showMainMenu again
MenuViewTemplates ==
    /\ UNCHANGED savedFile
    /\ menuPc = "menu"
    /\ \E a \in MenuAnswers :
           /\ a.template = "view_templates"
           /\ answers' = a
    /\ menuPc' = "templates"
    /\ UNCHANGED <<exitCause, analyses>>
    /\ UNCHANGED <<crawlVars, scoreVars, eligVars, llmVars, calcVars, raceVars, classVars>>

\* any other template: the criteria are attached, main calls runAnalysis,
\* which awaits analyzeRepo
MenuAnalyze ==
    /\ UNCHANGED savedFile
    /\ menuPc = "menu"
    /\ analyses < MaxAnalyses
    /\ \E a \in MenuAnswers :
           /\ a.template \notin {"exit", "view_templates"}
           /\ answers' = a
           /\ hackathonCriteria' =
                  IF a.hackathon = "null" THEN NoCriteria ELSE TemplateCriteria
    /\ analyses' = analyses + 1
    /\ menuPc' = "analyzing"
    /\ UNCHANGED exitCause
    /\ UNCHANGED <<remote, contributorsRequest, repoData, eligibilityResults, eligible>>
    /\ UNCHANGED llmVars
    /\ UNCHANGED <<crawlVars, scoreVars, calcVars, raceVars, classVars>>

\* the awaited analyzeRepo settles
AnalyzeRepoSettles ==
    /\ menuPc = "analyzing"
    /\ \E outcome \in AnalysisOutcomes :
           /\ result' = outcome
           /\ IF outcome.kind = "object"
              THEN LET rd == fetchRepoData(SampleRemote, TRUE)
                       check == eligibilityCheck(rd, hackathonCriteria)
                   IN  /\ remote' = SampleRemote
                       /\ contributorsRequest' = "ok"
                       /\ repoData' = rd
                       /\ eligibilityResults' = check.results
                       /\ eligible' = check.eligible
              ELSE UNCHANGED <<remote, contributorsRequest, repoData,
                               eligibilityResults, eligible>>
    /\ menuPc' = "analyzed"
    /\ UNCHANGED <<answers, exitCause, analyses, savedFile, hackathonCriteria>>
    /\ UNCHANGED <<llm, llmFeasibility, aiPc, aiCall, aiResult>>
    /\ UNCHANGED <<crawlVars, scoreVars, calcVars, raceVars, classVars>>

\* dataToSave of saveResultsToFile: the template and, under `results`, the
\* object analyzeRepo returned (the date and repository name are left out)
saveResultsToFile(r, a) == [written |-> TRUE, template |-> a.template, results |-> r]

\* the rest of runAnalysis: a result is displayed and, if asked for, saved
\* (a failed write is caught); then main's call of showContinueOptions
RunAnalysisEnds ==
    /\ menuPc = "analyzed"
    /\ menuPc' = runAnalysis(result)
    /\ IF result.kind = "object" /\ answers.saveResults
       THEN \E written \in BOOLEAN :
                savedFile' = IF written THEN saveResultsToFile(result, answers)
                             ELSE savedFile
       ELSE UNCHANGED savedFile
    /\ UNCHANGED <<answers, exitCause, analyses>>
    /\ UNCHANGED <<crawlVars, scoreVars, eligVars, llmVars, calcVars, raceVars, classVars>>

\* 'analyze_another': the loop continues with showMainMenu
ContinueAnother ==
    /\ UNCHANGED savedFile
    /\ menuPc = "continue"
    /\ menuPc' = "menu"
    /\ UNCHANGED <<answers, exitCause, analyses>>
    /\ UNCHANGED <<crawlVars, scoreVars, eligVars, llmVars, calcVars, raceVars, classVars>>

\* 'view_templates' at the continue options
ContinueViewTemplates ==
    /\ UNCHANGED savedFile
    /\ menuPc = "continue"
    /\ menuPc' = "templates"
    /\ UNCHANGED <<answers, exitCause, analyses>>
    /\ UNCHANGED <<crawlVars, scoreVars, eligVars, llmVars, calcVars, raceVars, classVars>>

\* 'exit' at the continue options: break
ContinueExit ==
    /\ UNCHANGED savedFile
    /\ menuPc = "continue"
    /\ menuPc' = "ended"
    /\ exitCause' = "continue exit"
    /\ UNCHANGED <<answers, analyses>>
    /\ UNCHANGED <<crawlVars, scoreVars, eligVars, llmVars, calcVars, raceVars, classVars>>

\* showTemplatesMenu confirmed: back to showMainMenu, from either caller
TemplatesContinue ==
    /\ UNCHANGED savedFile
    /\ menuPc = "templates"
    /\ menuPc' = "menu"
    /\ UNCHANGED <<answers, exitCause, analyses>>
    /\ UNCHANGED <<crawlVars, scoreVars, eligVars, llmVars, calcVars, raceVars, classVars>>

\* showTemplatesMenu declined: process.exit(0)
TemplatesDecline ==
    /\ UNCHANGED savedFile
    /\ menuPc = "templates"
    /\ menuPc' = "exited"
    /\ exitCause' = "continue declined"
    /\ UNCHANGED <<answers, analyses>>
    /\ UNCHANGED <<crawlVars, scoreVars, eligVars, llmVars, calcVars, raceVars, classVars>>

\* retry confirmed in main's catch: the loop continues
RetryYes ==
    /\ UNCHANGED savedFile
    /\ menuPc = "retry"
    /\ menuPc' = "menu"
    /\ UNCHANGED <<answers, exitCause, analyses>>
    /\ UNCHANGED <<crawlVars, scoreVars, eligVars, llmVars, calcVars, raceVars, classVars>>

\* retry declined: break
RetryNo ==
    /\ UNCHANGED savedFile
    /\ menuPc = "retry"
    /\ menuPc' = "ended"
    /\ exitCause' = "retry declined"
    /\ UNCHANGED <<answers, analyses>>
    /\ UNCHANGED <<crawlVars, scoreVars, eligVars, llmVars, calcVars, raceVars, classVars>>

NextMenu ==
    \/ MenuFails
    \/ MenuExit
    \/ MenuViewTemplates
    \/ MenuAnalyze
    \/ AnalyzeRepoSettles
    \/ RunAnalysisEnds
    \/ ContinueAnother
    \/ ContinueViewTemplates
    \/ ContinueExit
    \/ TemplatesContinue
    \/ TemplatesDecline
    \/ RetryYes
    \/ RetryNo

\* once analyzeRepo has settled, the code after the await runs
SpecMenu == InitScore /\ [][NextMenu]_vars /\ WF_vars(RunAnalysisEnds)

(***************************************************************************)
(* Properties of the interactive loop                                      *)
(***************************************************************************)

\* analyzeRepo has just returned null or thrown
FailedAnalysis == menuPc = "analyzed" /\ result.kind \in {"null", "thrown"}

\* the while loop of main has been left, by break or by process.exit
LoopOver == menuPc \in {"ended", "exited"}

\* the prompts at which the user is asked how to go on
Prompts == {"menu", "continue", "templates", "retry"}

\* C20: a fatal failure of one analysis (analyzeRepo returns null or
\* throws) aborts only that analysis: the loop does not end on it, it
\* reaches the continue prompt, from which another analysis can be started;
\* and the loop ends only at a prompt, through an explicit exit choice or a
\* declined retry or continuation.
C20_FailureKeepsLoopAlive ==
    /\ [][FailedAnalysis => (menuPc' = "continue" /\ exitCause' = "none")]_vars
    /\ (FailedAnalysis ~> menuPc = "continue")
    /\ [](menuPc = "continue" => ENABLED ContinueAnother)
    /\ []((menuPc = "menu" /\ analyses < MaxAnalyses) => ENABLED MenuAnalyze)
    /\ [][(~LoopOver /\ LoopOver') =>
              /\ menuPc \in Prompts
              /\ exitCause' \in {"menu exit", "continue exit",
                                  "continue declined", "retry declined"}]_vars

\* a second analysis is under way after the first one returned null
C20_Witness ==
    /\ menuPc = "analyzing"
    /\ analyses = 2
    /\ result.kind = "null"
    /\ exitCause = "none"

(***************************************************************************)
(* Properties of fetchRepoData and of analyzeRepo as a whole               *)
(***************************************************************************)

\* C30: when the contributors request fails, fetchRepoData still succeeds
\* with an empty contributor list, and the team-size rule then evaluates to
\* PASS with a count of 0 for every positive maxTeamSize.
C30_FailedContributorsPass ==
    contributorsRequest = "failed" =>
        /\ repoData.fetched
        /\ repoData.contributors = 0
        /\ pc # "returned"
        /\ (Checked /\ hackathonCriteria.maxTeamSize > 0) =>
               /\ Evaluated("maxTeamSize")
               /\ Verdict("maxTeamSize") = "PASS"
               /\ eligibilityResults["maxTeamSize"].n = 0

\* a team of five, over the limit of four, passes as 0/4
C30_Witness ==
    /\ Checked
    /\ contributorsRequest = "failed"
    /\ remote.contributors = 5
    /\ hackathonCriteria.maxTeamSize = 4
    /\ Verdict("maxTeamSize") = "PASS"
    /\ eligibilityResults["maxTeamSize"].n = 0

\* C21: when the user enables saving and an eligibility check was run, the
\* persisted JSON report contains the eligibility verdict (the per-rule
\* outcomes and the overall flag) besides the score report.
C21_SavedReportHasEligibility ==
    (savedFile.written /\ ~hackathonCriteria.isNull /\ eligibilityResults # EmptyMap) =>
        /\ "criteriaResults" \in DOMAIN savedFile.results
        /\ "finalScore" \in DOMAIN savedFile.results
        /\ \/ {"eligibilityResults", "eligible"} \subseteq DOMAIN savedFile.results
           \/ {"eligibilityResults", "eligible"} \subseteq DOMAIN savedFile

(***************************************************************************)
(* analyzeRepo from fetchRepoData to its return, for sampled repositories  *)
(***************************************************************************)

\* a fork with a team of five
SampleFork == [SampleRemote EXCEPT !.fork = TRUE, !.contributors = 5]

\* the bundled template with a demo demanded
StrictCriteria == [TemplateCriteria EXCEPT !.demoRequired = "true"]

\* raw totals getComprehensiveCodeAnalysis can give the five criteria
Profiles ==
    {[obtained |-> TRUE, codeQuality |-> q, documentation |-> d, functionality |-> f,
      innovation |-> i, userExperience |-> u] :
        q \in CodeQualityRaw \cap SampleRaw, d \in DocumentationRaw \cap SampleRaw,
        f \in FunctionalityRaw \cap SampleRaw, i \in InnovationRaw \cap SampleRaw,
        u \in UserExperienceRaw \cap SampleRaw}

\* fetchRepoData on one of the sampled repositories
FetchSampleRepo ==
    /\ FetchRepoDataOk
    /\ remote' \in {SampleRemote, SampleFork}

\* the five criteria, each scored from the total this repository gives it
AnalyzeCodeQuality ==
    /\ ScoreCodeQuality
    /\ criteriaResults'["codeQuality"] = ScaleToTen(comprehensiveAnalysis.codeQuality)

AnalyzeDocumentation ==
    /\ ScoreDocumentation
    /\ criteriaResults'["documentation"] = ScaleToTen(comprehensiveAnalysis.documentation)

AnalyzeFunctionality ==
    /\ ScoreFunctionality
    /\ criteriaResults'["functionality"] = ScaleToTen(comprehensiveAnalysis.functionality)

AnalyzeInnovation ==
    /\ ScoreInnovation
    /\ criteriaResults'["innovation"] = ScaleToTen(comprehensiveAnalysis.innovation)

AnalyzeUserExperience ==
    /\ ScoreUserExperience
    /\ criteriaResults'["userExperience"] = ScaleToTen(comprehensiveAnalysis.userExperience)

\* analyzeRepo is called with no criteria, the template, or the strict
\* template, on a repository whose comprehensive analysis is fixed
InitAnalyze ==
    /\ InitCrawlVars
    /\ probeSize = 512
    /\ pc = "fetch"
    /\ criteriaResults = EmptyMap
    /\ score = 0
    /\ finalScore = -1
    /\ remote = NoData
    /\ contributorsRequest = "none"
    /\ repoData = NoData
    /\ hackathonCriteria \in {NoCriteria, TemplateCriteria, StrictCriteria}
    /\ eligibilityResults = EmptyMap
    /\ eligible = TRUE
    /\ InitLlmVars
    /\ InitMenuVars
    /\ calc = NotCalculated
    /\ comprehensiveAnalysis \in Profiles
    /\ InitRaceVars
    /\ InitClassVars

NextAnalyze ==
    \/ FetchSampleRepo
    \/ FetchRepoDataFail
    \/ CheckEligibility
    \/ StartScoring
    \/ AnalyzeCodeQuality
    \/ AnalyzeDocumentation
    \/ AnalyzeFunctionality
    \/ AnalyzeInnovation
    \/ AnalyzeUserExperience
    \/ FinalScore
    \/ FeasibilityCall
    \/ FeasibilitySkip
    \/ FeasibilitySettle
    \/ ReturnResult

SpecAnalyze == InitAnalyze /\ [][NextAnalyze]_vars

\* the sub-scores the repository's comprehensive analysis determines
ExpectedResults == [k \in Criteria |-> ScaleToTen(comprehensiveAnalysis[k])]

\* C27: the eligibility gate never influences scoring: whether the rule set
\* is absent, passes or yields NOT ELIGIBLE, analyzeRepo goes on to the
\* scoring, and the criteria results and final score it returns are those
\* the repository data determine.
C27_EligibilityDoesNotGateScoring ==
    /\ (pc = "idle" /\ repoData.fetched) => ENABLED StartScoring
    /\ (pc = "returned" /\ repoData.fetched) =>
           /\ result.kind = "object"
           /\ result.criteriaResults = ExpectedResults
           /\ result.finalScore \in ToFixed1(analyzeRepo_score(ExpectedResults))

\* a repository that is NOT ELIGIBLE under the strict template got its
\* full score report
C27_Witness ==
    /\ pc = "returned"
    /\ hackathonCriteria = StrictCriteria
    /\ ~eligible
    /\ result.kind = "object"
    /\ result.criteriaResults = ExpectedResults
    /\ result.finalScore > 0

(***************************************************************************)
(* callTogetherAIWithTimeout: Promise.race of the completion and a timer   *)
(***************************************************************************)

\* a settled promise is settled again by a later resolve or reject
settle_overwrite(current, new) == new

\* resolve or reject of the promise Promise.race returned: only the first
\* one settles it
settle(current, new) == IF current = "pending" THEN new ELSE current

\* the caller's await resumes once, when the race promise first settles
Deliver(call, new) ==
    LET outcome == settle(call.outcome, new)
    IN  [call EXCEPT !.outcome = outcome,
                     !.delivered = IF outcome # call.outcome THEN @ + 1 ELSE @]

\* callTogetherAIWithTimeout(params, label): the completion is requested and
\* the 30 s timer is set
CallIssued(l) ==
    /\ ~calls[l].issued
    /\ calls' = [calls EXCEPT ![l] = [NotCalled EXCEPT !.issued = TRUE, !.timer = "armed"]]
    /\ UNCHANGED <<crawlVars, scoreVars, eligVars, llmVars, menuVars, calcVars, classVars>>

\* together.chat.completions.create resolves
CompletionFulfils(l) ==
    /\ calls[l].issued
    /\ calls[l].completion = "pending"
    /\ calls' = [calls EXCEPT ![l] = Deliver([@ EXCEPT !.completion = "fulfilled"], "resolved")]
    /\ UNCHANGED <<crawlVars, scoreVars, eligVars, llmVars, menuVars, calcVars, classVars>>

\* together.chat.completions.create rejects
CompletionRejects(l) ==
    /\ calls[l].issued
    /\ calls[l].completion = "pending"
    /\ calls' = [calls EXCEPT ![l] = Deliver([@ EXCEPT !.completion = "rejected"], "rejected")]
    /\ UNCHANGED <<crawlVars, scoreVars, eligVars, llmVars, menuVars, calcVars, classVars>>

\* the setTimeout callback runs (the timer is never cleared) and rejects
\* with the timeout error
TimerFires(l) ==
    /\ calls[l].timer = "armed"
    /\ calls' = [calls EXCEPT ![l] = Deliver([@ EXCEPT !.timer = "fired"], "timeout")]
    /\ UNCHANGED <<crawlVars, scoreVars, eligVars, llmVars, menuVars, calcVars, classVars>>

NextRace ==
    \/ \E l \in Labels : CallIssued(l)
    \/ \E l \in Labels : CompletionFulfils(l)
    \/ \E l \in Labels : CompletionRejects(l)
    \/ \E l \in Labels : TimerFires(l)

SpecRace == InitScore /\ [][NextRace]_vars

\* C23: each call through callTogetherAIWithTimeout yields exactly one
\* outcome: the completion's own result or error if it settles before the
\* timer, otherwise a timeout failure; a completion arriving after the
\* timer expired, or a timer firing after the completion settled, never
\* changes the outcome already delivered.
C23_OneOutcomePerCall ==
    /\ [](\A l \in Labels :
            /\ calls[l].delivered <= 1
            /\ calls[l].delivered = 1 <=> calls[l].outcome # "pending"
            /\ (calls[l].completion # "pending" \/ calls[l].timer = "fired")
                   => calls[l].outcome # "pending"
            /\ (calls[l].completion = "fulfilled" /\ calls[l].timer = "armed")
                   => calls[l].outcome = "resolved"
            /\ (calls[l].completion = "rejected" /\ calls[l].timer = "armed")
                   => calls[l].outcome = "rejected"
            /\ (calls[l].completion = "pending" /\ calls[l].timer = "fired")
                   => calls[l].outcome = "timeout")
    /\ [][\A l \in Labels :
             calls[l].outcome # "pending" => calls'[l].outcome = calls[l].outcome]_vars

\* one completion arrived after its timer had expired, one timer fired
\* after its completion had failed; both outcomes stayed
C23_Witness ==
    /\ calls["code quality"].completion = "fulfilled"
    /\ calls["code quality"].timer = "fired"
    /\ calls["code quality"].outcome = "timeout"
    /\ calls["documentation"].completion = "rejected"
    /\ calls["documentation"].timer = "fired"
    /\ calls["documentation"].outcome = "rejected"
    /\ calls["documentation"].delivered = 1

(***************************************************************************)
(* The classifier: analyzeRepository after the crawl                       *)
(***************************************************************************)

\* the characters of the string literals the classifier searches for
Literals ==
       ("app" :> <<"a", "p", "p">>)
    @@ ("pages" :> <<"p", "a", "g", "e", "s">>)
    @@ ("src" :> <<"s", "r", "c">>)
    @@ ("react" :> <<"r", "e", "a", "c", "t">>)
    @@ ("controllers" :> <<"c", "o", "n", "t", "r", "o", "l", "l", "e", "r", "s">>)
    @@ ("models" :> <<"m", "o", "d", "e", "l", "s">>)
    @@ ("views" :> <<"v", "i", "e", "w", "s">>)
    @@ ("services" :> <<"s", "e", "r", "v", "i", "c", "e", "s">>)
    @@ ("express" :> <<"e", "x", "p", "r", "e", "s", "s">>)
    @@ ("route" :> <<"r", "o", "u", "t", "e">>)
    @@ ("docker" :> <<"d", "o", "c", "k", "e", "r">>)
    @@ ("components" :> <<"c", "o", "m", "p", "o", "n", "e", "n", "t", "s">>)
    @@ ("utils" :> <<"u", "t", "i", "l", "s">>)
    @@ ("config" :> <<"c", "o", "n", "f", "i", "g">>)
    @@ ("modules" :> <<"m", "o", "d", "u", "l", "e", "s">>)
    @@ ("env" :> <<"e", "n", "v">>)
    @@ ("settings" :> <<"s", "e", "t", "t", "i", "n", "g", "s">>)
    @@ ("readme" :> <<"r", "e", "a", "d", "m", "e">>)
    @@ ("docs" :> <<"d", "o", "c", "s">>)
    @@ ("api" :> <<"a", "p", "i">>)
    @@ ("license" :> <<"l", "i", "c", "e", "n", "s", "e">>)
    @@ ("webpack" :> <<"w", "e", "b", "p", "a", "c", "k">>)
    @@ ("vite" :> <<"v", "i", "t", "e">>)
    @@ ("babel" :> <<"b", "a", "b", "e", "l">>)
    @@ ("compression" :> <<"c", "o", "m", "p", "r", "e", "s", "s", "i", "o", "n">>)
    @@ ("cache" :> <<"c", "a", "c", "h", "e">>)
    @@ ("helmet" :> <<"h", "e", "l", "m", "e", "t">>)
    @@ ("cors" :> <<"c", "o", "r", "s">>)
    @@ ("bcrypt" :> <<"b", "c", "r", "y", "p", "t">>)
    @@ ("jwt" :> <<"j", "w", "t">>)
    @@ ("auth" :> <<"a", "u", "t", "h">>)
    @@ ("rate-limit" :> <<"r", "a", "t", "e", "-", "l", "i", "m", "i", "t">>)
    @@ ("test" :> <<"t", "e", "s", "t">>)
    @@ ("spec" :> <<"s", "p", "e", "c">>)
    @@ ("jest" :> <<"j", "e", "s", "t">>)
    @@ ("mocha" :> <<"m", "o", "c", "h", "a">>)
    @@ ("cypress" :> <<"c", "y", "p", "r", "e", "s", "s">>)
    @@ ("playwright" :> <<"p", "l", "a", "y", "w", "r", "i", "g", "h", "t">>)
    @@ ("__tests__" :> <<"_", "_", "t", "e", "s", "t", "s", "_", "_">>)
    @@ ("business" :> <<"b", "u", "s", "i", "n", "e", "s", "s">>)
    @@ ("logic" :> <<"l", "o", "g", "i", "c">>)
    @@ ("repositories" :> <<"r", "e", "p", "o", "s", "i", "t", "o", "r", "i", "e", "s">>)
    @@ ("dao" :> <<"d", "a", "o">>)
    @@ ("helpers" :> <<"h", "e", "l", "p", "e", "r", "s">>)
    @@ ("common" :> <<"c", "o", "m", "m", "o", "n">>)
    @@ ("middleware" :> <<"m", "i", "d", "d", "l", "e", "w", "a", "r", "e">>)
    @@ ("interceptors" :> <<"i", "n", "t", "e", "r", "c", "e", "p", "t", "o", "r", "s">>)
    @@ ("factory" :> <<"f", "a", "c", "t", "o", "r", "y">>)
    @@ ("repository" :> <<"r", "e", "p", "o", "s", "i", "t", "o", "r", "y">>)
    @@ ("event" :> <<"e", "v", "e", "n", "t">>)
    @@ ("observer" :> <<"o", "b", "s", "e", "r", "v", "e", "r">>)
    @@ ("listener" :> <<"l", "i", "s", "t", "e", "n", "e", "r">>)
    @@ (".js" :> <<".", "j", "s">>)
    @@ (".ts" :> <<".", "t", "s">>)
    @@ (".jsx" :> <<".", "j", "s", "x">>)
    @@ (".tsx" :> <<".", "t", "s", "x">>)
    @@ (".json" :> <<".", "j", "s", "o", "n">>)
    @@ (".md" :> <<".", "m", "d">>)
    @@ ("//" :> <<"/", "/">>)
    @@ ("/*" :> <<"/", "*">>)
    @@ ("#" :> <<"#">>)
    @@ ("_" :> <<"_">>)
    @@ ("-" :> <<"-">>)
    @@ ("." :> <<".">>)
    @@ ("budget" :> <<"b", "u", "d", "g", "e", "t">>)
    @@ ("finance" :> <<"f", "i", "n", "a", "n", "c", "e">>)
    @@ ("money" :> <<"m", "o", "n", "e", "y">>)
    @@ ("shop" :> <<"s", "h", "o", "p">>)
    @@ ("store" :> <<"s", "t", "o", "r", "e">>)
    @@ ("ecommerce" :> <<"e", "c", "o", "m", "m", "e", "r", "c", "e">>)
    @@ ("e-commerce" :> <<"e", "-", "c", "o", "m", "m", "e", "r", "c", "e">>)
    @@ ("social" :> <<"s", "o", "c", "i", "a", "l">>)
    @@ ("chat" :> <<"c", "h", "a", "t">>)
    @@ ("messaging" :> <<"m", "e", "s", "s", "a", "g", "i", "n", "g">>)
    @@ ("task" :> <<"t", "a", "s", "k">>)
    @@ ("todo" :> <<"t", "o", "d", "o">>)
    @@ ("project" :> <<"p", "r", "o", "j", "e", "c", "t">>)
    @@ ("backend" :> <<"b", "a", "c", "k", "e", "n", "d">>)
    @@ ("server" :> <<"s", "e", "r", "v", "e", "r">>)
    @@ ("web" :> <<"w", "e", "b">>)
    @@ ("frontend" :> <<"f", "r", "o", "n", "t", "e", "n", "d">>)
    @@ ("mobile" :> <<"m", "o", "b", "i", "l", "e">>)
    @@ ("blog" :> <<"b", "l", "o", "g">>)
    @@ ("cms" :> <<"c", "m", "s">>)
    @@ ("dashboard" :> <<"d", "a", "s", "h", "b", "o", "a", "r", "d">>)
    @@ ("admin" :> <<"a", "d", "m", "i", "n">>)

\* the structure object the crawl hands to the classifier
Structure ==
    [allFiles |-> allFiles, allDirectories |-> allDirectories,
     files |-> files, fileContents |-> fileContents]

\* paths.map(p => p.toLowerCase())
LowerCased(paths) == [i \in 1..Len(paths) |-> toLowerCase(PathChars(paths[i]))]

\* paths as the strings the crawl recorded
Strings(paths) == [i \in 1..Len(paths) |-> PathChars(paths[i])]

\* strings.some(s => s.includes(literal))
SomeIncludes(strings, literal) ==
    \E i \in 1..Len(strings) : Includes(strings[i], Literals[literal])

\* strings.filter(s => literals.some(l => s.includes(l))).length
CountIncludes(strings, literals) ==
    Cardinality({i \in 1..Len(strings) :
                    \E l \in literals : Includes(strings[i], Literals[l])})

\* generic MVC is looked for before the framework conventions
detectArchitecturePattern_mvcFirst(structure) ==
    LET dirPaths == LowerCased(structure.allDirectories)
    IN  IF \/ SomeIncludes(dirPaths, "controllers")
           \/ SomeIncludes(dirPaths, "models")
           \/ SomeIncludes(dirPaths, "views")
        THEN "MVC (Model-View-Controller)"
        ELSE IF SomeIncludes(dirPaths, "app") THEN "App Router (Next.js 13+)"
        ELSE IF SomeIncludes(dirPaths, "pages") THEN "Pages Router (Next.js)"
        ELSE "Custom Architecture"

detectArchitecturePattern(structure) ==
    LET dirPaths  == LowerCased(structure.allDirectories)
        filePaths == LowerCased(structure.allFiles)
    IN  IF SomeIncludes(dirPaths, "app") THEN "App Router (Next.js 13+)"
        ELSE IF SomeIncludes(dirPaths, "pages") THEN "Pages Router (Next.js)"
        ELSE IF SomeIncludes(dirPaths, "src") /\ SomeIncludes(filePaths, "react")
        THEN "React Component-Based"
        ELSE IF \/ SomeIncludes(dirPaths, "controllers")
                \/ SomeIncludes(dirPaths, "models")
                \/ SomeIncludes(dirPaths, "views")
        THEN "MVC (Model-View-Controller)"
        ELSE IF SomeIncludes(dirPaths, "services") /\ SomeIncludes(dirPaths, "controllers")
        THEN "Layered Architecture"
        ELSE IF SomeIncludes(filePaths, "express") /\ SomeIncludes(filePaths, "route")
        THEN "Express.js REST API"
        ELSE IF SomeIncludes(dirPaths, "services") /\ SomeIncludes(filePaths, "docker")
        THEN "Microservices Architecture"
        ELSE "Custom Architecture"

\* layers.push(name) when the test holds
PushIf(list, test, name) == IF test THEN Append(list, name) ELSE list

analyzeLayerSeparation(structure) ==
    LET dirPaths == LowerCased(structure.allDirectories)
        any(literals) == \E l \in literals : SomeIncludes(dirPaths, l)
        l1 == PushIf(<<>>, any({"components", "pages", "views"}), "Presentation")
        l2 == PushIf(l1, any({"services", "business", "logic"}), "Business Logic")
        l3 == PushIf(l2, any({"models", "repositories", "dao"}), "Data Access")
        l4 == PushIf(l3, any({"utils", "helpers", "common"}), "Utilities")
        l5 == PushIf(l4, any({"config", "settings"}), "Configuration")
        l6 == PushIf(l5, any({"middleware", "interceptors"}), "Middleware")
    IN  IF Len(l6) > 0 THEN l6 ELSE <<"Monolithic">>

detectDesignPatterns(structure) ==
    LET dirPaths  == LowerCased(structure.allDirectories)
        filePaths == LowerCased(structure.allFiles)
        p1 == PushIf(<<>>, \E i \in 1..Len(filePaths) :
                               /\ Includes(filePaths[i], Literals["config"])
                               /\ Includes(filePaths[i], Literals[".js"]),
                     "Singleton (Configuration)")
        p2 == PushIf(p1, SomeIncludes(dirPaths, "factory") \/ SomeIncludes(filePaths, "factory"),
                     "Factory")
        p3 == PushIf(p2, SomeIncludes(dirPaths, "repository") \/ SomeIncludes(filePaths, "repository"),
                     "Repository")
        p4 == PushIf(p3, \E l \in {"event", "observer", "listener"} : SomeIncludes(filePaths, l),
                     "Observer")
        p5 == PushIf(p4, SomeIncludes(dirPaths, "middleware") \/ SomeIncludes(filePaths, "middleware"),
                     "Middleware")
        p6 == PushIf(p5, SomeIncludes(dirPaths, "models") /\ SomeIncludes(dirPaths, "controllers"),
                     "MVC")
        p7 == PushIf(p6, SomeIncludes(dirPaths, "services"), "Service Layer")
    IN  PushIf(p7, SomeIncludes(dirPaths, "components"), "Component")

\* Math.min(10, Math.max(0, score))
Clamp(points) == IF points > 10 THEN 10 ELSE IF points < 0 THEN 0 ELSE points

\* the score of analyzeArchitecturalQuality (strengths and weaknesses restate
\* the same six tests)
analyzeArchitecturalQuality(structure, architecture) ==
    LET dirPaths  == Strings(structure.allDirectories)
        filePaths == Strings(structure.allFiles)
    IN  Clamp(5
              + (IF Len(architecture.layers) >= 3 THEN 2 ELSE 0)
              + (IF Len(architecture.patterns) >= 2 THEN 2 ELSE 0)
              + (IF CountIncludes(dirPaths, {"components", "services", "utils", "config"}) >= 3
                 THEN 1 ELSE 0)
              + (IF CountIncludes(filePaths, {"config", "env", "settings"}) >= 2 THEN 1 ELSE 0)
              + (IF CountIncludes(filePaths, {"readme", "docs", "api"}) >= 1 THEN 1 ELSE 0)
              + (IF CountIncludes(filePaths, {"test", "spec", "jest"}) >= 1 THEN 1 ELSE 0))

analyzeArchitecture(structure) ==
    LET detected == [pattern |-> detectArchitecturePattern(structure),
                     layers |-> analyzeLayerSeparation(structure),
                     patterns |-> detectDesignPatterns(structure),
                     quality |-> 0]
    IN  [detected EXCEPT !.quality = analyzeArchitecturalQuality(structure, detected)]

Lower == {"a", "b", "c", "d", "e", "f", "g", "h", "i", "j", "k", "l", "m",
          "n", "o", "p", "q", "r", "s", "t", "u", "v", "w", "x", "y", "z"}
Upper == {"A", "B", "C", "D", "E", "F", "G", "H", "I", "J", "K", "L", "M",
          "N", "O", "P", "Q", "R", "S", "T", "U", "V", "W", "X", "Y", "Z"}
Digit == {"0", "1", "2", "3", "4", "5", "6", "7", "8", "9"}

\* paths.map(p => p.split('/').pop().toLowerCase())
BaseNames(paths) == [i \in 1..Len(paths) |-> toLowerCase(Chars[paths[i][Len(paths[i])]])]

\* /^[a-z][class]*$/.test(s)
IsWord(s, class) ==
    /\ Len(s) >= 1
    /\ s[1] \in Lower
    /\ \A i \in 2..Len(s) : s[i] \in class

\* /^[a-z][class]*\.(js|ts|jsx|tsx)$/.test(s)
IsSourceName(s, class) ==
    LET dots == {i \in 1..Len(s) : s[i] = "."}
        dot  == IF dots = {} THEN 0 ELSE CHOOSE i \in dots : \A j \in dots : j <= i
    IN  /\ dot > 0
        /\ SubSeq(s, dot, Len(s)) \in {Literals[".js"], Literals[".ts"],
                                       Literals[".jsx"], Literals[".tsx"]}
        /\ IsWord(SubSeq(s, 1, dot - 1), class)

Count(strings, Test(_)) == Cardinality({i \in 1..Len(strings) : Test(strings[i])})

Max3(a, b, c) ==
    IF a >= b /\ a >= c THEN a ELSE IF b >= c THEN b ELSE c

camelCase == Lower \cup Upper \cup Digit
kebabCase == Lower \cup Digit \cup {"-"}
snakeCase == Lower \cup Digit \cup {"_"}

\* the ratios consistent / total are compared as fractions of ten
analyzeNamingConsistency(structure) ==
    LET fileNames == BaseNames(structure.allFiles)
        dirNames  == BaseNames(structure.allDirectories)
        ends(ext) == Count(fileNames, LAMBDA f : EndsWith(f, Literals[ext]))
        totalFiles == ends(".js") + ends(".ts") + ends(".jsx") + ends(".tsx")
        consistentFiles ==
            Max3(Count(fileNames, LAMBDA f : IsSourceName(f, camelCase)),
                 Count(fileNames, LAMBDA f : IsSourceName(f, kebabCase)),
                 Count(fileNames, LAMBDA f : IsSourceName(f, snakeCase)))
        consistentDirs ==
            Max3(Count(dirNames, LAMBDA d : IsWord(d, camelCase)),
                 Count(dirNames, LAMBDA d : IsWord(d, kebabCase)),
                 Count(dirNames, LAMBDA d : IsWord(d, snakeCase)))
        filePoints ==
            IF totalFiles = 0 THEN 0
            ELSE IF 10 * consistentFiles >= 8 * totalFiles THEN 3
            ELSE IF 10 * consistentFiles >= 6 * totalFiles THEN 2
            ELSE IF 10 * consistentFiles >= 4 * totalFiles THEN 1
            ELSE 0
        dirPoints ==
            IF Len(dirNames) = 0 THEN 0
            ELSE IF 10 * consistentDirs >= 8 * Len(dirNames) THEN 2
            ELSE IF 10 * consistentDirs >= 6 * Len(dirNames) THEN 1
            ELSE 0
    IN  Clamp(5 + filePoints + dirPoints)

\* String.prototype.startsWith
StartsWith(s, prefix) ==
    /\ Len(prefix) <= Len(s)
    /\ SubSeq(s, 1, Len(prefix)) = prefix

RECURSIVE Sum(_)
Sum(numbers) ==
    IF numbers = <<>> THEN 0 ELSE Head(numbers) + Sum(Tail(numbers))

\* the variance of the depths is compared with 1 and 2 after multiplying by
\* the squared count; with no directory it is NaN and neither test holds
analyzeStructuralConsistency(structure) ==
    LET dirPaths == structure.allDirectories
        n        == Len(dirPaths)
        depths   == [i \in 1..n |-> Len(dirPaths[i])]
        spread   == n * Sum([i \in 1..n |-> depths[i] * depths[i]])
                      - Sum(depths) * Sum(depths)
        depthPoints ==
            IF n = 0 THEN 0
            ELSE IF spread < n * n THEN 2
            ELSE IF spread < 2 * n * n THEN 1
            ELSE 0
        logicalGroups ==
            Cardinality({l \in {"components", "services", "utils", "config"} :
                            SomeIncludes(Strings(dirPaths), l)})
        organizedDirs ==
            Count(Strings(dirPaths),
                  LAMBDA dir : \E i \in 1..Len(structure.allFiles) :
                      StartsWith(PathChars(structure.allFiles[i]), dir \o <<"/">>))
    IN  Clamp(5 + depthPoints
                + (IF logicalGroups >= 3 THEN 2 ELSE IF logicalGroups >= 2 THEN 1 ELSE 0)
                + (IF organizedDirs >= 3 THEN 1 ELSE 0))

\* what a call gives its caller: a value, or an error thrown
Returned(value) == [thrown |-> FALSE, value |-> value]
Thrown == [thrown |-> TRUE, value |-> 0]

\* the points analyzePatternConsistency adds to 5 once the dominant extension
\* is known
patternPoints(structure) ==
    LET filePaths  == Strings(structure.allFiles)
        extensions == [i \in 1..Len(filePaths) |->
                          toLowerCase(SplitPop(filePaths[i], "."))]
        extensionCount(ext) == Count(extensions, LAMBDA e : e = ext)
        dominant   == IF Len(extensions) = 0 THEN 0
                      ELSE CHOOSE c \in {extensionCount(extensions[i]) : i \in 1..Len(extensions)} :
                               \A i \in 1..Len(extensions) : extensionCount(extensions[i]) <= c
        totalFiles == Len(filePaths)
        jsFiles    == Count(filePaths, LAMBDA f : EndsWith(f, Literals[".js"]))
        tsFiles    == Count(filePaths, LAMBDA f : EndsWith(f, Literals[".ts"]))
        hasConsistentGrouping ==
            \/ jsFiles > 0 /\ tsFiles = 0
            \/ tsFiles > 0 /\ jsFiles = 0
            \/ jsFiles > 0 /\ tsFiles > 0 /\ jsFiles - tsFiles < 3 /\ tsFiles - jsFiles < 3
    IN    (IF totalFiles = 0 THEN 0
           ELSE IF 10 * dominant >= 7 * totalFiles THEN 2
           ELSE IF 10 * dominant >= 5 * totalFiles THEN 1
           ELSE 0)
        + (IF hasConsistentGrouping THEN 2 ELSE 0)
        + (IF CountIncludes(filePaths, {"config", "env"}) > 0 THEN 1 ELSE 0)

\* the reduce over the extensions is given an initial value
analyzePatternConsistency_initialValue(structure) ==
    Returned(Clamp(5 + patternPoints(structure)))

\* Object.keys(extensionCounts).reduce(...) has no initial value: with no
\* file it throws a TypeError
analyzePatternConsistency(structure) ==
    IF Len(structure.allFiles) = 0 THEN Thrown
    ELSE Returned(Clamp(5 + patternPoints(structure)))

\* consistency is thirds / 3
analyzeCoherence(structure) ==
    LET naming   == analyzeNamingConsistency(structure)
        struct   == analyzeStructuralConsistency(structure)
        patterns == analyzePatternConsistency(structure)
    IN  IF patterns.thrown THEN Thrown
        ELSE Returned([naming |-> naming, structure |-> struct,
                       patterns |-> patterns.value,
                       thirds |-> naming + struct + patterns.value])

\* the characters of the file contents the API serves
Text ==
       ("{\"name\":\"todo-api\",\"dependencies\":{\"express\":\"4\",\"helmet\":\"7\"},\"devDependencies\":{\"jest\":\"29\"}}" :> <<"{", "\"", "n", "a", "m", "e", "\"", ":", "\"", "t", "o", "d", "o", "-", "a", "p", "i", "\"", ",", "\"", "d", "e", "p", "e", "n", "d", "e", "n", "c", "i", "e", "s", "\"", ":", "{", "\"", "e", "x", "p", "r", "e", "s", "s", "\"", ":", "\"", "4", "\"", ",", "\"", "h", "e", "l", "m", "e", "t", "\"", ":", "\"", "7", "\"", "}", ",", "\"", "d", "e", "v", "D", "e", "p", "e", "n", "d", "e", "n", "c", "i", "e", "s", "\"", ":", "{", "\"", "j", "e", "s", "t", "\"", ":", "\"", "2", "9", "\"", "}", "}">>)
    @@ ("{\"name\":\"budget-tracker\"}" :> <<"{", "\"", "n", "a", "m", "e", "\"", ":", "\"", "b", "u", "d", "g", "e", "t", "-", "t", "r", "a", "c", "k", "e", "r", "\"", "}">>)
    @@ ("{\"name\":\"shop-admin\"}" :> <<"{", "\"", "n", "a", "m", "e", "\"", ":", "\"", "s", "h", "o", "p", "-", "a", "d", "m", "i", "n", "\"", "}">>)
    @@ ("{\"name\":\"\"}" :> <<"{", "\"", "n", "a", "m", "e", "\"", ":", "\"", "\"", "}">>)
    @@ ("{\"name\":" :> <<"{", "\"", "n", "a", "m", "e", "\"", ":">>)
    @@ ("// react component" :> <<"/", "/", " ", "r", "e", "a", "c", "t", " ", "c", "o", "m", "p", "o", "n", "e", "n", "t">>)
    @@ ("# node image" :> <<"#", " ", "n", "o", "d", "e", " ", "i", "m", "a", "g", "e">>)
    @@ ("module.exports = router" :> <<"m", "o", "d", "u", "l", "e", ".", "e", "x", "p", "o", "r", "t", "s", " ", "=", " ", "r", "o", "u", "t", "e", "r">>)
    @@ ("export default Page" :> <<"e", "x", "p", "o", "r", "t", " ", "d", "e", "f", "a", "u", "l", "t", " ", "P", "a", "g", "e">>)
    @@ ("# Budget planner" :> <<"#", " ", "B", "u", "d", "g", "e", "t", " ", "p", "l", "a", "n", "n", "e", "r">>)
    @@ ("# Notes" :> <<"#", " ", "N", "o", "t", "e", "s">>)
    @@ ("const finance = 1" :> <<"c", "o", "n", "s", "t", " ", "f", "i", "n", "a", "n", "c", "e", " ", "=", " ", "1">>)

NoManifest == [ok |-> FALSE, name |-> "", dependencies |-> {}]

\* JSON.parse of a package.json: whether it parses, its name, and the keys
\* of its dependencies and devDependencies together
JSONparse(content) ==
    CASE content = "{\"name\":\"todo-api\",\"dependencies\":{\"express\":\"4\",\"helmet\":\"7\"},\"devDependencies\":{\"jest\":\"29\"}}"
             -> [ok |-> TRUE, name |-> "todo-api", dependencies |-> {"express", "helmet", "jest"}]
      [] content = "{\"name\":\"budget-tracker\"}"
             -> [ok |-> TRUE, name |-> "budget-tracker", dependencies |-> {}]
      [] content = "{\"name\":\"shop-admin\"}"
             -> [ok |-> TRUE, name |-> "shop-admin", dependencies |-> {}]
      [] content = "{\"name\":\"\"}"
             -> [ok |-> TRUE, name |-> "", dependencies |-> {}]
      [] OTHER -> NoManifest

\* the dependencies the quality checks read from structure.files['package.json']
deps(structure) ==
    IF <<"package.json">> \in DOMAIN structure.files
    THEN JSONparse(structure.files[<<"package.json">>]).dependencies
    ELSE {}

analyzeMaintainability(structure) ==
    LET dirPaths  == Strings(structure.allDirectories)
        filePaths == Strings(structure.allFiles)
        modularDirs == CountIncludes(dirPaths, {"components", "services", "utils", "modules"})
    IN  Clamp(5
              + (IF modularDirs >= 3 THEN 2 ELSE IF modularDirs >= 1 THEN 1 ELSE 0)
              + (IF SomeIncludes(dirPaths, "components") /\ SomeIncludes(dirPaths, "services")
                 THEN 2 ELSE 0)
              + (IF SomeIncludes(dirPaths, "utils") THEN 1 ELSE 0)
              + (IF CountIncludes(filePaths, {"config", "env", "settings"}) >= 2 THEN 1 ELSE 0)
              + (IF CountIncludes(filePaths, {"readme", "docs", "api"}) >= 1 THEN 1 ELSE 0))

\* the thresholds length * 0.8 and length * 0.6 are compared as tenths
analyzeReadability(structure) ==
    LET dirPaths  == structure.allDirectories
        filePaths == structure.allFiles
        clearNames ==
            Cardinality({i \in 1..Len(dirPaths) :
                LET dirName == Chars[dirPaths[i][Len(dirPaths[i])]]
                IN  /\ Len(dirName) <= 15
                    /\ ~Includes(dirName, Literals["_"])
                    /\ ~Includes(dirName, Literals["-"])})
        organizedFiles == Cardinality({i \in 1..Len(filePaths) : Len(filePaths[i]) >= 2})
        filesWithContent == DOMAIN structure.files
        filesWithComments ==
            Cardinality({f \in filesWithContent :
                \E l \in {"//", "/*", "#"} : Includes(Text[structure.files[f]], Literals[l])})
    IN  Clamp(5
              + (IF CountIncludes(Strings(filePaths), {"readme", "docs", "license"}) >= 1
                 THEN 2 ELSE 0)
              + (IF 10 * clearNames >= 8 * Len(dirPaths) THEN 2
                 ELSE IF 10 * clearNames >= 6 * Len(dirPaths) THEN 1 ELSE 0)
              + (IF 10 * organizedFiles >= 8 * Len(filePaths) THEN 1 ELSE 0)
              + (IF filesWithContent # {} /\ 2 * filesWithComments >= Cardinality(filesWithContent)
                 THEN 1 ELSE 0))

analyzePerformance(structure) ==
    Clamp(5
          + (IF CountIncludes(Strings(structure.allFiles),
                              {"webpack", "vite", "babel", "compression", "cache"}) >= 1
             THEN 2 ELSE 0)
          + (IF deps(structure) \cap {"webpack", "vite"} # {} THEN 2 ELSE 0)
          + (IF deps(structure) \cap {"compression", "gzip"} # {} THEN 1 ELSE 0)
          + (IF deps(structure) \cap {"cache-manager", "redis"} # {} THEN 1 ELSE 0))

analyzeSecurity(structure) ==
    Clamp(5
          + (IF CountIncludes(Strings(structure.allFiles),
                              {"helmet", "cors", "bcrypt", "jwt", "auth", "rate-limit"}) >= 1
             THEN 2 ELSE 0)
          + (IF deps(structure) \cap {"helmet", "cors"} # {} THEN 2 ELSE 0)
          + (IF deps(structure) \cap {"bcrypt", "jsonwebtoken"} # {} THEN 1 ELSE 0)
          + (IF deps(structure) \cap {"express-rate-limit"} # {} THEN 1 ELSE 0))

analyzeTestability(structure) ==
    Clamp(5
          + (IF CountIncludes(Strings(structure.allFiles),
                              {"test", "spec", "jest", "mocha", "cypress", "playwright"}) >= 1
             THEN 2 ELSE 0)
          + (IF CountIncludes(Strings(structure.allDirectories),
                              {"test", "spec", "__tests__"}) >= 1
             THEN 1 ELSE 0)
          + (IF deps(structure) \cap {"jest", "mocha"} # {} THEN 2 ELSE 0)
          + (IF deps(structure) \cap {"cypress", "playwright"} # {} THEN 1 ELSE 0)
          + (IF deps(structure) \cap {"@testing-library"} # {} THEN 1 ELSE 0))

\* overall is fifths / 5
analyzeCodeQuality(structure) ==
    LET quality == [maintainability |-> analyzeMaintainability(structure),
                    readability |-> analyzeReadability(structure),
                    performance |-> analyzePerformance(structure),
                    security |-> analyzeSecurity(structure),
                    testability |-> analyzeTestability(structure),
                    fifths |-> 0]
    IN  [quality EXCEPT !.fifths = quality.maintainability + quality.readability
                                     + quality.performance + quality.security
                                     + quality.testability]

(***************************************************************************)
(* Crawled repositories handed to the classifier                           *)
(***************************************************************************)

Entry(name, type, children) == [name |-> name, type |-> type, children |-> children]

\* what the root listing of a repository can hold: directories with the
\* files listed in them, and files
SampleRoot ==
    { Entry("app", "dir", <<"page.js">>),
      Entry("pages", "dir", <<"index.js">>),
      Entry("src", "dir", <<"React.jsx">>),
      Entry("controllers", "dir", <<"user_auth.test.js">>),
      Entry("models", "dir", <<>>),
      Entry("services", "dir", <<>>),
      Entry("package.json", "file", <<>>),
      Entry("Dockerfile", "file", <<>>),
      Entry("express-routes.js", "file", <<>>) }

MaxEntries == 2

\* the root listings: up to MaxEntries distinct entries in any order
Listings ==
    {l \in UNION {[1..n -> SampleRoot] : n \in 0..MaxEntries} :
        \A i, j \in DOMAIN l : l[i] = l[j] => i = j}

\* the text the contents API serves for a file
SampleContent(filePath) ==
    CASE filePath = <<"package.json">>
             -> "{\"name\":\"todo-api\",\"dependencies\":{\"express\":\"4\",\"helmet\":\"7\"},\"devDependencies\":{\"jest\":\"29\"}}"
      [] filePath = <<"src", "React.jsx">> -> "// react component"
      [] filePath = <<"Dockerfile">> -> "# node image"
      [] filePath = <<"express-routes.js">> -> "module.exports = router"
      [] OTHER -> "export default Page"

\* structure.allDirectories after the crawl of a listing
RECURSIVE CrawledDirectories(_)
CrawledDirectories(listing) ==
    IF listing = <<>> THEN <<>>
    ELSE (IF Head(listing).type = "dir" THEN << <<Head(listing).name>> >> ELSE <<>>)
         \o CrawledDirectories(Tail(listing))

\* structure.allFiles after the crawl of a listing: a directory is crawled
\* to its end before the next entry of the listing is looked at
RECURSIVE CrawledFiles(_)
CrawledFiles(listing) ==
    IF listing = <<>> THEN <<>>
    ELSE (IF Head(listing).type = "dir"
          THEN [i \in 1..Len(Head(listing).children) |->
                   <<Head(listing).name, Head(listing).children[i]>>]
          ELSE << <<Head(listing).name>> >>)
         \o CrawledFiles(Tail(listing))

\* the array methods the classifier uses (map, filter, some, reduce) return
\* new values: the array they are called on stays as it was
\* a slip that sorts the array in place before reading it
readOnly_sorted(array) ==
    IF Len(array) >= 2 THEN <<array[Len(array)]>> \o SubSeq(array, 1, Len(array) - 1)
    ELSE array

readOnly(array) == array

\* what a step of the classifier leaves of the inventory
Inventory ==
    /\ allFiles' = readOnly(allFiles)
    /\ allDirectories' = readOnly(allDirectories)
    /\ UNCHANGED <<status, stack, fileContents, files, directories, analysis,
                   probeSize, listRequests, listFailed, contentRequests,
                   contentFailed, visited, recordLog>>

\* const architectureAnalysis = await this.analyzeArchitecture(repoStructure)
AnalyzeArchitecture(r) ==
    /\ runs[r].pc = "idle"
    /\ runs' = [runs EXCEPT ![r].architecture = analyzeArchitecture(Structure),
                            ![r].pc = "coherence"]
    /\ Inventory
    /\ UNCHANGED <<purposeScan, scoreVars, eligVars, llmVars, menuVars, calcVars, raceVars>>

\* const coherenceAnalysis = await this.analyzeCoherence(repoStructure); an
\* error thrown there is caught by analyzeRepository, which returns null
AnalyzeCoherence(r) ==
    /\ runs[r].pc = "coherence"
    /\ LET coherence == analyzeCoherence(Structure)
       IN  runs' = IF coherence.thrown
                   THEN [runs EXCEPT ![r].pc = "returned", ![r].returned = "null"]
                   ELSE [runs EXCEPT ![r].coherence = coherence.value,
                                     ![r].pc = "quality"]
    /\ Inventory
    /\ UNCHANGED <<purposeScan, scoreVars, eligVars, llmVars, menuVars, calcVars, raceVars>>

\* const qualityAnalysis = await this.analyzeCodeQuality(repoStructure)
AnalyzeQuality(r) ==
    /\ runs[r].pc = "quality"
    /\ runs' = [runs EXCEPT ![r].quality = analyzeCodeQuality(Structure),
                            ![r].pc = "insights"]
    /\ Inventory
    /\ UNCHANGED <<purposeScan, scoreVars, eligVars, llmVars, menuVars, calcVars, raceVars>>

\* generateInsights, then return { projectPurpose, architecture, ... }
ReturnAnalysis(r) ==
    /\ runs[r].pc = "insights"
    /\ runs' = [runs EXCEPT ![r].pc = "returned", ![r].returned = "object"]
    /\ Inventory
    /\ UNCHANGED <<purposeScan, scoreVars, eligVars, llmVars, menuVars, calcVars, raceVars>>

\* analyzeRepo: intelligentAnalysis = await analyzeRepository(owner, repo),
\* the display of a non-null analysis, and the return of the report
ReturnReport ==
    /\ pc = "intelligent"
    /\ runs[1].pc = "returned"
    /\ result' = [kind |-> "object", criteriaResults |-> criteriaResults,
                  finalScore |-> finalScore,
                  intelligentAnalysis |-> runs[1].returned]
    /\ pc' = "returned"
    /\ UNCHANGED <<llm, llmFeasibility, aiPc, aiCall, aiResult>>
    /\ UNCHANGED <<criteriaResults, score, finalScore>>
    /\ UNCHANGED <<crawlVars, eligVars, menuVars, calcVars, raceVars, classVars>>

\* analyzeRepo before `Run intelligent analysis`, with the crawl of each
\* analyzer run over (its request bookkeeping is not carried along): every
\* root listing of the sample, scored
InitClassify ==
    /\ \E listing \in Listings :
           /\ allDirectories = CrawledDirectories(listing)
           /\ allFiles = CrawledFiles(listing)
    /\ fileContents = [f \in SeqToSet(allFiles) |-> SampleContent(f)]
    /\ files = [f \in {g \in SeqToSet(allFiles) : isImportantFile(g)} |-> SampleContent(f)]
    /\ directories = [d \in SeqToSet(allDirectories) |-> <<>>]
    /\ analysis = determineComplexity
    /\ status = "returned"
    /\ stack = <<>>
    /\ probeSize = 512
    /\ listRequests = {}
    /\ listFailed = {}
    /\ contentRequests = {}
    /\ contentFailed = {}
    /\ visited = {}
    /\ recordLog = <<>>
    /\ pc = "intelligent"
    /\ \E raw \in CodeQualityRaw \cap DocumentationRaw \cap FunctionalityRaw
                  \cap InnovationRaw \cap UserExperienceRaw \cap {100} :
           criteriaResults = [c \in Criteria |-> ScaleToTen(raw)]
    /\ score = analyzeRepo_score(criteriaResults)
    /\ finalScore \in ToFixed1(score)
    /\ InitEligVars
    /\ InitLlmVars
    /\ InitMenuVars
    /\ InitCalcVars
    /\ InitRaceVars
    /\ InitClassVars

NextClassify ==
    \/ \E r \in Runs : AnalyzeArchitecture(r)
    \/ \E r \in Runs : AnalyzeCoherence(r)
    \/ \E r \in Runs : AnalyzeQuality(r)
    \/ \E r \in Runs : ReturnAnalysis(r)
    \/ ReturnReport

SpecClassify == InitClassify /\ [][NextClassify]_vars

(***************************************************************************)
(* Properties of the classifier                                            *)
(***************************************************************************)

\* some recorded directory, whatever its place in the list, has the literal
\* in its lower-cased path
DirCue(literal) ==
    \E d \in SeqToSet(allDirectories) :
        Includes(toLowerCase(PathChars(d)), Literals[literal])

FileCue(literal) ==
    \E f \in SeqToSet(allFiles) :
        Includes(toLowerCase(PathChars(f)), Literals[literal])

Priority ==
    << "App Router (Next.js 13+)", "Pages Router (Next.js)", "React Component-Based",
       "MVC (Model-View-Controller)", "Layered Architecture", "Express.js REST API",
       "Microservices Architecture", "Custom Architecture" >>

\* the cue of the k-th pattern of Priority
Matches(k) ==
    CASE k = 1 -> DirCue("app")
      [] k = 2 -> DirCue("pages")
      [] k = 3 -> DirCue("src") /\ FileCue("react")
      [] k = 4 -> DirCue("controllers") \/ DirCue("models") \/ DirCue("views")
      [] k = 5 -> DirCue("services") /\ DirCue("controllers")
      [] k = 6 -> FileCue("express") /\ FileCue("route")
      [] k = 7 -> DirCue("services") /\ FileCue("docker")
      [] OTHER -> TRUE

Reverse(seq) == [i \in 1..Len(seq) |-> seq[Len(seq) + 1 - i]]

Classified(r) == runs[r].pc # "idle"

\* C24: when several architecture patterns match one inventory, the pattern
\* reported is the first match in the fixed order App Router, Pages Router,
\* React, MVC, Layered, Express REST, Microservices, Custom; a Next.js or
\* React cue therefore wins over generic MVC, and listing the same paths in
\* another order gives the same pattern.
C24_FirstMatchInFixedOrder ==
    \A r \in Runs :
        Classified(r) =>
            LET pattern == runs[r].architecture.pattern
            IN  /\ \E k \in 1..Len(Priority) :
                       /\ Priority[k] = pattern
                       /\ Matches(k)
                       /\ \A j \in 1..(k - 1) : ~Matches(j)
                /\ (Matches(1) \/ Matches(2) \/ Matches(3))
                       => pattern # "MVC (Model-View-Controller)"
                /\ detectArchitecturePattern(
                       [Structure EXCEPT !.allDirectories = Reverse(@),
                                         !.allFiles = Reverse(@)]) = pattern

\* controllers is listed before app: MVC and
\* App Router both match, App Router is reported
C24_Witness ==
    /\ Classified(1)
    /\ allDirectories = << <<"controllers">>, <<"app">> >>
    /\ Matches(1) /\ Matches(4)
    /\ runs[1].architecture.pattern = "App Router (Next.js 13+)"

\* C25: MVC is reported only when both a models-like and a controllers-like
\* directory are present: with only one of them neither the architecture
\* pattern nor the list of design patterns names MVC.
C25_MvcNeedsModelsAndControllers ==
    \A r \in Runs :
        (Classified(r) /\ ~(DirCue("models") /\ DirCue("controllers"))) =>
            /\ runs[r].architecture.pattern # "MVC (Model-View-Controller)"
            /\ "MVC" \notin SeqToSet(runs[r].architecture.patterns)

\* C26: an inventory with a services directory and a controllers directory
\* and no Next.js or React cue is detected as 'Layered Architecture'.
C26_LayeredIsDetected ==
    \A r \in Runs :
        (/\ Classified(r)
         /\ DirCue("services") /\ DirCue("controllers")
         /\ ~Matches(1) /\ ~Matches(2) /\ ~Matches(3)) =>
            runs[r].architecture.pattern = "Layered Architecture"

\* the step a run is at, counted from the start of analyzeRepository
Position(r) ==
    CASE runs[r].pc = "idle" -> 0
      [] runs[r].pc = "coherence" -> 1
      [] runs[r].pc = "quality" -> 2
      [] runs[r].pc = "insights" -> 3
      [] OTHER -> 4

C29_EmptyInventoryGivesNullAnalysis ==
    allFiles = <<>> =>
        /\ analyzePatternConsistency(Structure).thrown
        /\ \A r \in Runs :
               Position(r) >= 2 => runs[r].pc = "returned" /\ runs[r].returned = "null"
        /\ pc = "returned" =>
               /\ result.kind = "object"
               /\ result.intelligentAnalysis = "null"
               /\ result.criteriaResults = criteriaResults
               /\ result.finalScore = finalScore

\* the root listing was empty (or failed): the report came back without an
\* analysis
C29_Witness ==
    /\ allFiles = <<>> /\ allDirectories = <<>>
    /\ runs[1].returned = "null"
    /\ pc = "returned"
    /\ result.kind = "object"
    /\ result.intelligentAnalysis = "null"

(***************************************************************************)
(* analyzeAllFilesForPurpose: where the project purpose comes from         *)
(***************************************************************************)

\* text.toLowerCase() includes one of the literals
Mentions(text, literals) ==
    \E l \in literals : Includes(toLowerCase(text), Literals[l])

\* the first definition in the class body (name only); the class keeps the
\* later one
analyzeProjectName_first(name, currentDomain) ==
    IF Mentions(Chars[name], {"budget", "finance", "money"})
    THEN "Financial Management Application"
    ELSE IF Mentions(Chars[name], {"shop", "store", "ecommerce"})
    THEN "E-commerce Application"
    ELSE IF Mentions(Chars[name], {"social", "chat"})
    THEN "Social/Communication Application"
    ELSE IF Mentions(Chars[name], {"task", "todo"})
    THEN "Task Management Application"
    ELSE IF Mentions(Chars[name], {"api", "backend"})
    THEN "Backend API Service"
    ELSE "null"

\* the definition in force: the second one of the class body
analyzeProjectName(name, currentDomain) ==
    IF Mentions(Chars[name], {"api", "backend"}) THEN "Backend API"
    ELSE IF Mentions(Chars[name], {"web", "frontend"}) THEN "Web Application"
    ELSE IF Mentions(Chars[name], {"mobile", "app"}) THEN "Mobile Application"
    ELSE IF Mentions(Chars[name], {"ecommerce", "shop"}) THEN "E-commerce Application"
    ELSE IF Mentions(Chars[name], {"blog", "cms"}) THEN "Content Management System"
    ELSE IF Mentions(Chars[name], {"dashboard", "admin"}) THEN "Admin Dashboard"
    ELSE IF currentDomain \notin {"undefined", "null", ""} THEN currentDomain
    ELSE "Web Application"

\* the purpose analyzePackageJson gives: null when the content does not
\* parse or has no name, else analyzeProjectName(pkg.name)
analyzePackageJson(content) ==
    LET pkg == JSONparse(content)
    IN  IF pkg.ok /\ pkg.name # "" THEN analyzeProjectName(pkg.name, "undefined")
        ELSE "null"

\* the purpose analyzeReadmeFile gives: each test that holds overwrites the
\* purpose of the tests before it
analyzeReadmeFile(content) ==
    IF Mentions(Text[content], {"api", "backend", "server"}) THEN "Backend API Service"
    ELSE IF Mentions(Text[content], {"task", "todo", "project"})
    THEN "Task/Project Management Application"
    ELSE IF Mentions(Text[content], {"social", "chat", "messaging"})
    THEN "Social/Communication Application"
    ELSE IF Mentions(Text[content], {"e-commerce", "shop", "store"})
    THEN "E-commerce Application"
    ELSE IF Mentions(Text[content], {"budget", "finance", "money"})
    THEN "Financial Management Application"
    ELSE "null"

\* the purpose analyzeCodeFile gives
analyzeCodeFile(content, filePath) ==
    IF \/ Mentions(Text[content], {"budget", "finance"})
       \/ Mentions(PathChars(filePath), {"budget", "finance"})
    THEN "Financial Management"
    ELSE "null"

\* Object.keys(structure.fileContents).filter(test): the keys in the order
\* the crawl inserted them
Keys(Test(_)) ==
    SelectSeq(allFiles, LAMBDA f : f \in DOMAIN fileContents /\ Test(f))

\* for (const file of files) { if (found.purpose && !analysis.projectPurpose)
\* analysis.projectPurpose = found.purpose }: the purpose already there
\* stays, else the first purpose found is taken
RECURSIVE Adopt(_, _)
Adopt(current, found) ==
    IF found = <<>> THEN current
    ELSE Adopt(IF Head(found).purpose # "null" /\ current.projectPurpose = "null"
               THEN [current EXCEPT !.projectPurpose = Head(found).purpose,
                                    !.source = Head(found).source]
               ELSE current,
               Tail(found))

\* if (structure.fileContents['package.json']) analysis.projectPurpose =
\* pkgAnalysis.purpose
ScanPackageJson ==
    /\ purposeScan.pc = "idle"
    /\ purposeScan' =
           IF <<"package.json">> \in DOMAIN fileContents
           THEN LET purpose == analyzePackageJson(fileContents[<<"package.json">>])
                IN  [pc |-> "readme", projectPurpose |-> purpose,
                     source |-> IF purpose = "null" THEN "none" ELSE "package.json"]
           ELSE [purposeScan EXCEPT !.pc = "readme"]
    /\ UNCHANGED <<runs, crawlVars, scoreVars, eligVars, llmVars, menuVars, calcVars, raceVars>>

\* the loop over the README and docs files
ScanReadmeFiles ==
    /\ purposeScan.pc = "readme"
    /\ LET readmeFiles == Keys(LAMBDA f : Mentions(PathChars(f), {"readme", "docs"}))
           found == [i \in 1..Len(readmeFiles) |->
                        [purpose |-> analyzeReadmeFile(fileContents[readmeFiles[i]]),
                         source |-> "readme"]]
       IN  purposeScan' = [Adopt(purposeScan, found) EXCEPT !.pc = "code"]
    /\ UNCHANGED <<runs, crawlVars, scoreVars, eligVars, llmVars, menuVars, calcVars, raceVars>>

\* the loop over the .js, .jsx, .ts and .tsx files
ScanCodeFiles ==
    /\ purposeScan.pc = "code"
    /\ LET codeFiles == Keys(LAMBDA f : \E ext \in {".js", ".jsx", ".ts", ".tsx"} :
                                            EndsWith(PathChars(f), Literals[ext]))
           found == [i \in 1..Len(codeFiles) |->
                        [purpose |-> analyzeCodeFile(fileContents[codeFiles[i]], codeFiles[i]),
                         source |-> "code"]]
       IN  purposeScan' = [Adopt(purposeScan, found) EXCEPT !.pc = "done"]
    /\ UNCHANGED <<runs, crawlVars, scoreVars, eligVars, llmVars, menuVars, calcVars, raceVars>>

Absent == "absent"

\* the contents the API serves for the root package.json, a package.json of
\* a sub-project, the README and a source file; each may be absent
SampleManifests ==
    { "{\"name\":\"todo-api\",\"dependencies\":{\"express\":\"4\",\"helmet\":\"7\"},\"devDependencies\":{\"jest\":\"29\"}}",
      "{\"name\":\"budget-tracker\"}", "{\"name\":\"shop-admin\"}",
      "{\"name\":\"\"}", "{\"name\":" }
SampleReadmes == {"# Budget planner", "# Notes"}
SampleSources == {"const finance = 1", "export default Page"}

\* fileContents after a crawl that fetched the files present
Fetched(readme, source, manifest, nested) ==
    LET served == (<<"README.md">> :> readme) @@ (<<"index.js">> :> source)
                  @@ (<<"package.json">> :> manifest)
                  @@ (<<"project", "package.json">> :> nested)
    IN  [f \in {g \in DOMAIN served : served[g] # Absent} |-> served[f]]

\* fetchRepositoryStructure after crawlRepository, before
\* analyzeAllFilesForPurpose
InitPurpose ==
    /\ \E readme \in SampleReadmes \cup {Absent}, source \in SampleSources \cup {Absent},
          manifest \in SampleManifests \cup {Absent},
          nested \in {"{\"name\":\"shop-admin\"}", Absent} :
           fileContents = Fetched(readme, source, manifest, nested)
    /\ allFiles = SelectSeq(<< <<"README.md">>, <<"index.js">>, <<"package.json">>,
                               <<"project", "package.json">> >>,
                            LAMBDA f : f \in DOMAIN fileContents)
    /\ allDirectories = IF <<"project", "package.json">> \in DOMAIN fileContents
                        THEN << <<"project">> >> ELSE <<>>
    /\ files = [f \in {g \in DOMAIN fileContents : isImportantFile(g)} |-> fileContents[f]]
    /\ directories = [d \in SeqToSet(allDirectories) |-> <<>>]
    /\ analysis = "none"
    /\ status = "crawling"
    /\ stack = <<>>
    /\ probeSize = 512
    /\ listRequests = {}
    /\ listFailed = {}
    /\ contentRequests = {}
    /\ contentFailed = {}
    /\ visited = {}
    /\ recordLog = <<>>
    /\ InitScoreVars
    /\ InitEligVars
    /\ InitLlmVars
    /\ InitMenuVars
    /\ InitCalcVars
    /\ InitRaceVars
    /\ InitClassVars

NextPurpose ==
    \/ ScanPackageJson
    \/ ScanReadmeFiles
    \/ ScanCodeFiles

SpecPurpose == InitPurpose /\ [][NextPurpose]_vars

\* a fetched file named package.json, at any depth, that parses and has a
\* name
NamedPackageJsonFetched ==
    \E f \in DOMAIN fileContents :
        /\ f[Len(f)] = "package.json"
        /\ JSONparse(fileContents[f]).ok
        /\ JSONparse(fileContents[f]).name # ""

\* the package.json analyzeAllFilesForPurpose looks up, that of the root,
\* parses and has a name
NamedRootPackageJsonFetched ==
    /\ <<"package.json">> \in DOMAIN fileContents
    /\ JSONparse(fileContents[<<"package.json">>]).ok
    /\ JSONparse(fileContents[<<"package.json">>]).name # ""

Scanned == purposeScan.pc = "done"

\* C28 as stated: whenever a package.json with a name was fetched, the
\* project purpose is the one analyzePackageJson gives and never comes from
\* the README or from code files.
C28_AnyNamedPackageJsonDecides ==
    (Scanned /\ NamedPackageJsonFetched) => purposeScan.source \notin {"readme", "code"}

\* C28: for the root package.json, the one analyzePackageJson is given,
\* having a name, the later analyzeProjectName yields a non-null purpose
\* that is none of the finance and task categories of the first definition,
\* and once it is read the project purpose stays that one: it is never
\* taken from the README or from code files.
C28_NamedRootPackageJsonDecides ==
    NamedRootPackageJsonFetched =>
        LET purpose == analyzePackageJson(fileContents[<<"package.json">>])
        IN  /\ purpose \notin {"null", "Financial Management Application",
                               "Task Management Application"}
            /\ purposeScan.pc # "idle" =>
                   /\ purposeScan.projectPurpose = purpose
                   /\ purposeScan.source = "package.json"

\* budget-tracker is the root package and the README speaks of a budget:
\* the purpose is the default of the later definition
C28_Witness ==
    /\ Scanned
    /\ JSONparse(fileContents[<<"package.json">>]).name = "budget-tracker"
    /\ fileContents[<<"README.md">>] = "# Budget planner"
    /\ purposeScan.projectPurpose = "Web Application"
    /\ purposeScan.source = "package.json"

====
